---- MODULE Spec2Model ----
(***************************************************************************)
(* Model of the gtd corpus checker: the loaded corpus (gtd.rs), the        *)
(* project and context entities (project.rs, context.rs), the validation  *)
(* engine (validate.rs), the parser over the Markdown events (parser.rs)   *)
(* and the parsing of the entities from it (markdown.rs, project.rs,       *)
(* context.rs).                                                            *)
(***************************************************************************)
EXTENDS Integers, Sequences, FiniteSets, TLC

VARIABLES
    fs,          \* the files on disk: projects (as parsed) and context items
    pc,          \* position of the program: load, projects, contexts, adhoc, done, panicked
    docs,        \* Documents: projects and contexts maps
    projIter,    \* iteration order of Documents::projects (HashMap::values)
    ctxIter,     \* iteration order of Documents::contexts (HashMap::values)
    k,           \* index of the next entity of the running loop
    project_ids, \* HashSet captured by project_id_is_unique
    actions,     \* HashSet captured by linked_action_is_unique
    calls,       \* log of the rule invocations, in order
    out,         \* the lines printed so far
    run,         \* number of the current run of the program
    prevOut,     \* the lines printed by the previous run
    input,       \* the arguments of a parsing function: a file name, a text (as events)
    parser,      \* Parser: the events that are still to come
    call,        \* the last call of a parsing function, with the parser before it
    ret          \* what the last call returned

\* the state of the parsing functions
parseVars == <<input, parser, call, ret>>

vars == <<fs, pc, docs, projIter, ctxIter, k, project_ids, actions, calls, out, run, prevOut,
          parseVars>>

-----------------------------------------------------------------------------
(* Bounds *)

\* total number of lines of the files of a corpus: the title line and the
\* tag line of a project, the title line of a context, and one line for each
\* action of a project and each item of a context
MaxLines == 5

\* number of times the program is run over the same files
MaxRuns == 2

-----------------------------------------------------------------------------
(* Strings are sequences of characters *)

Digits == {"0", "1", "2", "3", "4", "5", "6", "7", "8", "9"}

ID_LEN == 12

\* Option: None, or Some(x)
None == <<>>

Some(x) == <<x>>

Unwrap(o) == o[1]

\* position of the last space of a string, 0 when there is none
LastSpace(s) ==
    IF \E i \in 1..Len(s) : s[i] = " "
    THEN CHOOSE i \in 1..Len(s) : s[i] = " " /\ \A j \in (i + 1)..Len(s) : s[j] # " "
    ELSE 0

\* position of the first space of a string, 0 when there is none
FirstSpace(s) ==
    IF \E i \in 1..Len(s) : s[i] = " "
    THEN CHOOSE i \in 1..Len(s) : s[i] = " " /\ \A j \in 1..(i - 1) : s[j] # " "
    ELSE 0

\* a Name::new that takes no name of more than one space
NameNewOneSpace(name) ==
    LET split_idx == FirstSpace(name)
        id == SubSeq(name, 1, split_idx - 1)
    IN  IF split_idx = 0 \/ Cardinality({i \in 1..Len(name) : name[i] = " "}) # 1 THEN None
        ELSE IF Len(id) # ID_LEN \/ \E i \in 1..Len(id) : id[i] \notin Digits THEN None
        ELSE Some([name |-> name, split_idx |-> split_idx])

\* project::Name::new: None, or the name with the index of its first space
NameNew(name) ==
    LET split_idx == FirstSpace(name)
        id == SubSeq(name, 1, split_idx - 1)
    IN  IF split_idx = 0 THEN None
        ELSE IF Len(id) # ID_LEN \/ \E i \in 1..Len(id) : id[i] \notin Digits THEN None
        ELSE Some([name |-> name, split_idx |-> split_idx])

NameId(n) == SubSeq(n.name, 1, n.split_idx - 1)

\* a title that starts at the space instead of after it
NameTitleFromSpace(n) == SubSeq(n.name, n.split_idx, Len(n.name))

NameTitle(n) == SubSeq(n.name, n.split_idx + 1, Len(n.name))

-----------------------------------------------------------------------------
(* The values the files are drawn from *)

Id1 == <<"1", "9", "7", "0", "0", "1", "0", "1", "0", "0", "0", "0">>
Id2 == <<"1", "9", "7", "0", "0", "1", "0", "1", "1", "2", "0", "0">>

TitleA == <<"A">>
TitleB == <<"B">>

\* file stems of the Projects directory
ProjectFileNames == <<Id1 \o <<" ">> \o TitleA, Id1 \o <<" ">> \o TitleB, Id2 \o <<" ">> \o TitleA>>

\* link texts of the references of contexts: project file stems and a text
\* that is no project name
LinkTexts == {ProjectFileNames[1], ProjectFileNames[3], <<"N", "o", " ", "P">>}

\* file stems of the Contexts directory
ContextFileNames == <<<<"c", "1">>, <<"c", "2">>>>

Statuses == {"Someday", "InProgress", "Complete"}

\* the title string of the level-1 heading of a project, None when the
\* heading has no title string
BodyTitles == {Some(TitleA), None}

\* project::Action: the id is all that validation reads
ProjectActions == {[id |-> Some("abc123")], [id |-> None]}

\* the items of a context list: a fragment that is no block reference, or
\* the BlockRef of the fragment
ContextItems ==
    {[kind |-> "Literal"]}
    \cup {[kind |-> "BlockRef", link |-> l, id |-> "abc123"] : l \in LinkTexts}
    \cup {[kind |-> "BlockRef", link |-> ProjectFileNames[1], id |-> "abcdef"]}

RECURSIVE SeqsOfLen(_, _)
SeqsOfLen(S, n) ==
    IF n = 0 THEN {<<>>}
    ELSE {<<x>> \o s : x \in S, s \in SeqsOfLen(S, n - 1)}

\* project::Actions with n actions in all
ActionsOfSize(n) ==
    UNION {UNION {{[active |-> a, upcoming |-> u, complete |-> c] :
                       a \in SeqsOfLen(ProjectActions, na),
                       u \in SeqsOfLen(ProjectActions, nu),
                       c \in SeqsOfLen(ProjectActions, n - na - nu)} :
                  nu \in 0..(n - na)} :
           na \in 0..n}

\* project::Project of the file `file` with n actions: what Project::parse
\* returns for a file whose name is a project name
ProjectsOfSize(file, n) ==
    {[name |-> Unwrap(NameNew(file)), title |-> t, status |-> s, actions |-> a] :
        t \in BodyTitles, s \in Statuses, a \in ActionsOfSize(n)}

\* the maps from some of the files to projects, w lines in all
RECURSIVE ProjectMaps(_, _)
ProjectMaps(files, w) ==
    IF files = <<>> THEN (IF w = 0 THEN {<<>>} ELSE {})
    ELSE ProjectMaps(Tail(files), w)
         \cup UNION {{(Unwrap(NameNew(Head(files))) :> p) @@ m :
                         p \in ProjectsOfSize(Head(files), n - 2),
                         m \in ProjectMaps(Tail(files), w - n)} :
                     n \in 2..w}

\* the maps from some of the context files to their list items, w lines in
\* all
RECURSIVE ContextMaps(_, _)
ContextMaps(files, w) ==
    IF files = <<>> THEN (IF w = 0 THEN {<<>>} ELSE {})
    ELSE ContextMaps(Tail(files), w)
         \cup UNION {{(Head(files) :> items) @@ m :
                         items \in SeqsOfLen(ContextItems, n - 1),
                         m \in ContextMaps(Tail(files), w - n)} :
                     n \in 1..w}

\* the contents of the Projects and Contexts directories
Corpus(f) ==
    \E wp \in 0..MaxLines : \E p \in ProjectMaps(ProjectFileNames, wp) :
        \E wc \in 0..(MaxLines - wp) : \E c \in ContextMaps(ContextFileNames, wc) :
            f = [projects |-> p, contexts |-> c]

\* the orders in which a HashMap with the keys S can be iterated
Orders(S) ==
    {o \in [1..Cardinality(S) -> S] : \A i, j \in 1..Cardinality(S) : o[i] = o[j] => i = j}

-----------------------------------------------------------------------------
(* context.rs *)

\* project::ActionRef::from_block_ref
ActionRefFromBlockRef(block_ref) ==
    IF NameNew(block_ref.link) = None THEN None
    ELSE Some([project_name |-> Unwrap(NameNew(block_ref.link)), action_id |-> block_ref.id])

\* context::Action::from_fragment; "panic" is the unwrap of a None
ContextActionFromFragment(item) ==
    IF item.kind = "BlockRef"
    THEN IF ActionRefFromBlockRef(item) = None THEN [kind |-> "panic"]
         ELSE [kind |-> "Reference", ref |-> Unwrap(ActionRefFromBlockRef(item))]
    ELSE [kind |-> "Literal"]

\* context::Action::to_action_ref
ToActionRef(action) == IF action.kind = "Reference" THEN Some(action.ref) ELSE None

-----------------------------------------------------------------------------
(* project.rs *)

\* Actions::actions: the actions with their status, active first
ActionsOf(acts) ==
    [i \in 1..Len(acts.active) |-> [action |-> acts.active[i], status |-> "Active"]]
    \o [i \in 1..Len(acts.upcoming) |-> [action |-> acts.upcoming[i], status |-> "Upcoming"]]
    \o [i \in 1..Len(acts.complete) |-> [action |-> acts.complete[i], status |-> "Complete"]]

\* Actions::get_action: the first action with the id, or None
GetAction(acts, id) ==
    LET all == ActionsOf(acts)
        hits == {i \in 1..Len(all) : all[i].action.id = Some(id)}
    IN  IF hits = {} THEN None
        ELSE Some(all[CHOOSE i \in hits : \A j \in hits : i <= j])

-----------------------------------------------------------------------------
(* validate.rs: the rules.  A rule returns None for Ok(()) and Some(message) *)
(* for Err(message); a message is its text and the title it is formatted     *)
(* with.                                                                     *)

Msg(text, arg) == [msg |-> text, arg |-> arg]

\* a uniqueness rule that remembers the whole name instead of the id
ProjectIdIsUniqueByName(ids, project) ==
    [res |-> IF project.name.name \in ids
             THEN Some(Msg("has a duplicate ID", <<>>)) ELSE None,
     ids |-> ids \cup {project.name.name}]

\* the closure of project_id_is_unique: the result and the set afterwards
ProjectIdIsUnique(ids, project) ==
    [res |-> IF NameId(project.name) \in ids
             THEN Some(Msg("has a duplicate ID", <<>>)) ELSE None,
     ids |-> ids \cup {NameId(project.name)}]

ProjectTitleMatchesName(project) ==
    LET name_title == NameTitle(project.name)
    IN  IF project.title = None THEN Some(Msg("has an invalid title in its body", <<>>))
        ELSE IF name_title # Unwrap(project.title)
        THEN Some(Msg("has a name that doesn't match its title", Unwrap(project.title)))
        ELSE None

\* a rule that is content with a complete project without active actions
CompleteProjectHasNoActiveActions(project) ==
    LET all == ActionsOf(project.actions)
        no_action_is_active == \A i \in 1..Len(all) : all[i].status # "Active"
    IN  IF project.status # "Complete" THEN None
        ELSE IF ~no_action_is_active
        THEN Some(Msg("is complete but has at least one uncomplete action", <<>>))
        ELSE None

CompleteProjectHasOnlyCompleteActions(project) ==
    LET all == ActionsOf(project.actions)
        are_all_actions_complete == \A i \in 1..Len(all) : all[i].status = "Complete"
    IN  IF project.status # "Complete" THEN None
        ELSE IF ~are_all_actions_complete
        THEN Some(Msg("is complete but has at least one uncomplete action", <<>>))
        ELSE None

\* a rule that asks every project for an active action, whatever its status
ProjectHasActiveActions(project) ==
    LET all == ActionsOf(project.actions)
        has_active_action == Cardinality({i \in 1..Len(all) : all[i].status = "Active"}) >= 1
    IN  IF ~has_active_action
        THEN Some(Msg("is in progress but has no active actions", <<>>))
        ELSE None

\* a rule that is content with an action of any status
InProgressProjectHasAnyAction(project) ==
    LET all == ActionsOf(project.actions)
    IN  IF project.status # "InProgress" THEN None
        ELSE IF Len(all) = 0
        THEN Some(Msg("is in progress but has no active actions", <<>>))
        ELSE None

InProgressProjectHasActiveActions(project) ==
    LET all == ActionsOf(project.actions)
        has_active_action == Cardinality({i \in 1..Len(all) : all[i].status = "Active"}) >= 1
    IN  IF project.status # "InProgress" THEN None
        ELSE IF ~has_active_action
        THEN Some(Msg("is in progress but has no active actions", <<>>))
        ELSE None

\* the context-action rules take the action and the Option of its project
ActionLinkIsValid(action, project) ==
    IF ToActionRef(action) = None THEN None
    ELSE IF project = None THEN Some(Msg("not a valid link to project", <<>>))
    ELSE None

LinkedProjectIsInProgress(action, project) ==
    IF ToActionRef(action) = None THEN None
    ELSE IF project = None THEN None
    ELSE IF Unwrap(project).status # "InProgress"
    THEN Some(Msg("linked project is not in progress", NameTitle(Unwrap(project).name)))
    ELSE None

LinkedProjectContainsAction(action, project) ==
    IF ToActionRef(action) = None THEN None
    ELSE IF project = None THEN None
    ELSE IF GetAction(Unwrap(project).actions, Unwrap(ToActionRef(action)).action_id) = None
    THEN Some(Msg("linked project doesn't have the action", NameTitle(Unwrap(project).name)))
    ELSE None

\* a rule that is content with an upcoming action
ActionInProjectIsNotComplete(action, project) ==
    IF ToActionRef(action) = None THEN None
    ELSE IF project = None THEN None
    ELSE LET found == GetAction(Unwrap(project).actions, Unwrap(ToActionRef(action)).action_id)
         IN  IF found = None THEN None
             ELSE IF Unwrap(found).status = "Complete"
             THEN Some(Msg("action is not active in linked project",
                           NameTitle(Unwrap(project).name)))
             ELSE None

ActionInProjectIsActive(action, project) ==
    IF ToActionRef(action) = None THEN None
    ELSE IF project = None THEN None
    ELSE LET found == GetAction(Unwrap(project).actions, Unwrap(ToActionRef(action)).action_id)
         IN  IF found = None THEN None
             ELSE IF Unwrap(found).status # "Active"
             THEN Some(Msg("action is not active in linked project",
                           NameTitle(Unwrap(project).name)))
             ELSE None

\* a uniqueness rule that remembers the action id without the project name
LinkedActionIsUniqueById(seen, action) ==
    IF ToActionRef(action) = None THEN [res |-> None, seen |-> seen]
    ELSE [res |-> IF Unwrap(ToActionRef(action)).action_id \in seen
                  THEN Some(Msg("action is not unique in contexts", <<>>)) ELSE None,
          seen |-> seen \cup {Unwrap(ToActionRef(action)).action_id}]

\* the closure of linked_action_is_unique: the result and the set afterwards
LinkedActionIsUnique(seen, action) ==
    IF ToActionRef(action) = None THEN [res |-> None, seen |-> seen]
    ELSE [res |-> IF Unwrap(ToActionRef(action)) \in seen
                  THEN Some(Msg("action is not unique in contexts", <<>>)) ELSE None,
          seen |-> seen \cup {Unwrap(ToActionRef(action))}]

-----------------------------------------------------------------------------
(* validate.rs: the runner *)

\* a registration that adds linked_action_is_unique first
ContextActionValidatorsReordered ==
    <<"linked_action_is_unique", "action_link_is_valid", "linked_project_is_in_progress",
      "linked_project_contains_action", "action_in_project_is_active">>

\* validate(): the rules in the order of their registration
ProjectValidators ==
    <<"project_id_is_unique", "project_title_matches_name",
      "complete_project_has_only_complete_actions",
      "in_progress_project_has_active_actions">>

ContextActionValidators ==
    <<"action_link_is_valid", "linked_project_is_in_progress",
      "linked_project_contains_action", "action_in_project_is_active",
      "linked_action_is_unique">>

AdHocValidators == <<"all_active_actions_are_in_a_context">>

\* ProjectValidator::validate of the rule v: the result and the rule's state
ProjectValidate(v, project, ids) ==
    CASE v = "project_id_is_unique" -> ProjectIdIsUnique(ids, project)
      [] v = "project_title_matches_name" ->
            [res |-> ProjectTitleMatchesName(project), ids |-> ids]
      [] v = "complete_project_has_only_complete_actions" ->
            [res |-> CompleteProjectHasOnlyCompleteActions(project), ids |-> ids]
      [] v = "in_progress_project_has_active_actions" ->
            [res |-> InProgressProjectHasActiveActions(project), ids |-> ids]

\* ContextActionValidator::validate of the rule v
ContextActionValidate(v, action, project, seen) ==
    CASE v = "action_link_is_valid" ->
            [res |-> ActionLinkIsValid(action, project), seen |-> seen]
      [] v = "linked_project_is_in_progress" ->
            [res |-> LinkedProjectIsInProgress(action, project), seen |-> seen]
      [] v = "linked_project_contains_action" ->
            [res |-> LinkedProjectContainsAction(action, project), seen |-> seen]
      [] v = "action_in_project_is_active" ->
            [res |-> ActionInProjectIsActive(action, project), seen |-> seen]
      [] v = "linked_action_is_unique" -> LinkedActionIsUnique(seen, action)

\* the errors a rule's result adds to the collected results
ErrOf(res) == IF res = None THEN <<>> ELSE <<Unwrap(res)>>

\* a runner that stops at the first failing rule of a project
RECURSIVE CollectProjectShortCircuit(_, _, _)
CollectProjectShortCircuit(vs, project, st) ==
    IF vs = <<>> \/ st.results # <<>> THEN st
    ELSE LET r == ProjectValidate(Head(vs), project, st.ids)
         IN  CollectProjectShortCircuit(Tail(vs), project,
                 [ids |-> r.ids,
                  results |-> st.results \o ErrOf(r.res),
                  calls |-> Append(st.calls, [rule |-> Head(vs), on |-> [p |-> project.name]])])

\* iter_mut().flat_map(|v| v.validate(project).err()).collect() over the
\* validators vs: st holds the rules' state, the results and the calls made
RECURSIVE CollectProject(_, _, _)
CollectProject(vs, project, st) ==
    IF vs = <<>> THEN st
    ELSE LET r == ProjectValidate(Head(vs), project, st.ids)
         IN  CollectProject(Tail(vs), project,
                 [ids |-> r.ids,
                  results |-> st.results \o ErrOf(r.res),
                  calls |-> Append(st.calls, [rule |-> Head(vs), on |-> [p |-> project.name]])])

RECURSIVE CollectContextAction(_, _, _, _, _)
CollectContextAction(vs, on, action, project, st) ==
    IF vs = <<>> THEN st
    ELSE LET r == ContextActionValidate(Head(vs), action, project, st.seen)
         IN  CollectContextAction(Tail(vs), on, action, project,
                 [seen |-> r.seen,
                  results |-> st.results \o ErrOf(r.res),
                  calls |-> Append(st.calls, [rule |-> Head(vs), on |-> on])])

\* a printed line: kind, msg and arg are what is printed, about is the
\* entity the line was printed for
Line(kind, msg, arg, about) == [kind |-> kind, msg |-> msg, arg |-> arg, about |-> about]

\* a header printed whether or not a rule failed
GroupWithoutCheck(header, arg, results, about) ==
    <<Line("header", header, arg, about)>>
    \o [i \in 1..Len(results) |-> Line("bullet", results[i].msg, results[i].arg, about)]

\* the header and the bullets printed for the results of one entity
Group(header, arg, results, about) ==
    IF results = <<>> THEN <<>>
    ELSE <<Line("header", header, arg, about)>>
         \o [i \in 1..Len(results) |-> Line("bullet", results[i].msg, results[i].arg, about)]

\* Documents::project
DocsProject(d, name) ==
    IF name \in DOMAIN d.projects THEN Some(d.projects[name]) ELSE None

RECURSIVE Concat(_)
Concat(ss) == IF ss = <<>> THEN <<>> ELSE Head(ss) \o Concat(Tail(ss))

\* the context actions in the order ValidatorRunner::run visits them
ContextWork(d, citer) ==
    Concat([ci \in 1..Len(citer) |->
               [ai \in 1..Len(d.contexts[citer[ci]].actions) |-> [c |-> citer[ci], i |-> ai]]])

\* the inner loops of all_active_actions_are_in_a_context: is the id the
\* action_id of a reference of some context
IsInAContext(d, action_id) ==
    \E c \in DOMAIN d.contexts : \E i \in 1..Len(d.contexts[c].actions) :
        LET action_ref == ToActionRef(d.contexts[c].actions[i])
        IN  action_ref # None /\ Unwrap(action_ref).action_id = action_id

\* all_active_actions_are_in_a_context: the lines it prints
AllActiveActionsAreInAContext(d, piter) ==
    Concat([pi \in 1..Len(piter) |->
        LET project == d.projects[piter[pi]]
            active == project.actions.active
            orphans == {i \in 1..Len(active) :
                            \/ active[i].id = None
                            \/ ~IsInAContext(d, Unwrap(active[i].id))}
        IN  IF project.status # "InProgress" THEN <<>>
            ELSE Concat([i \in 1..Len(active) |->
                     IF i \in orphans
                     THEN <<Line("adhoc", "action is active but isn't in any contexts",
                                 NameTitle(project.name), [p |-> project.name, a |-> i])>>
                     ELSE <<>>])])

-----------------------------------------------------------------------------
(* The program: load the corpus, then ValidatorRunner::run *)

Init ==
    /\ Corpus(fs)
    /\ pc = "load"
    /\ docs = [projects |-> <<>>, contexts |-> <<>>]
    /\ projIter = <<>>
    /\ ctxIter = <<>>
    /\ k = 1
    /\ project_ids = {}
    /\ actions = {}
    /\ calls = <<>>
    /\ out = <<>>
    /\ run = 1
    /\ prevOut = <<>>
    /\ input = <<>>
    /\ parser = <<>>
    /\ call = [fn |-> "none"]
    /\ ret = [fn |-> "none"]

\* the position after the loop over the projects
AfterProjects(d, citer) == IF ContextWork(d, citer) # <<>> THEN "contexts" ELSE "adhoc"

\* Documents::load: the contexts are parsed, and the two maps get the
\* iteration order of their hasher
Load ==
    /\ pc = "load"
    /\ LET parsed == [c \in DOMAIN fs.contexts |->
                         [name |-> c,
                          actions |-> [i \in 1..Len(fs.contexts[c]) |->
                                          ContextActionFromFragment(fs.contexts[c][i])]]]
           panics == \E c \in DOMAIN parsed : \E i \in 1..Len(parsed[c].actions) :
                         parsed[c].actions[i].kind = "panic"
       IN  IF panics
           THEN /\ pc' = "panicked"
                /\ UNCHANGED <<docs, projIter, ctxIter>>
           ELSE \E po \in Orders(DOMAIN fs.projects), co \in Orders(DOMAIN fs.contexts) :
                /\ docs' = [projects |-> fs.projects, contexts |-> parsed]
                /\ projIter' = po
                /\ ctxIter' = co
                /\ pc' = IF Len(po) > 0 THEN "projects" ELSE AfterProjects(docs', co)
    /\ UNCHANGED <<fs, k, project_ids, actions, calls, out, run, prevOut, parseVars>>

\* one iteration of the first loop of run: run_project_validators
RunProjectValidators ==
    /\ pc = "projects"
    /\ LET project == docs.projects[projIter[k]]
           st == CollectProject(ProjectValidators, project,
                                [ids |-> project_ids, results |-> <<>>, calls |-> <<>>])
       IN  /\ project_ids' = st.ids
           /\ calls' = calls \o st.calls
           /\ out' = out \o Group("project", project.name.name, st.results, [p |-> project.name])
    /\ IF k < Len(projIter)
       THEN k' = k + 1 /\ pc' = pc
       ELSE k' = 1 /\ pc' = AfterProjects(docs, ctxIter)
    /\ UNCHANGED <<fs, docs, projIter, ctxIter, actions, run, prevOut, parseVars>>

\* one iteration of the second loop of run: the project is looked up and
\* run_context_action_validators is called
RunContextActionValidators ==
    /\ pc = "contexts"
    /\ LET work == ContextWork(docs, ctxIter)
           context == docs.contexts[work[k].c]
           action == context.actions[work[k].i]
           project == IF ToActionRef(action) = None THEN None
                      ELSE DocsProject(docs, Unwrap(ToActionRef(action)).project_name)
           st == CollectContextAction(ContextActionValidators, work[k], action, project,
                                      [seen |-> actions, results |-> <<>>, calls |-> <<>>])
       IN  /\ actions' = st.seen
           /\ calls' = calls \o st.calls
           /\ out' = out \o Group("action in", context.name, st.results, work[k])
           /\ IF k < Len(work)
              THEN k' = k + 1 /\ pc' = pc
              ELSE k' = 1 /\ pc' = "adhoc"
    /\ UNCHANGED <<fs, docs, projIter, ctxIter, project_ids, run, prevOut, parseVars>>

\* run_ad_hoc_validators, and the end of run
RunAdHocValidators ==
    /\ pc = "adhoc"
    /\ out' = out \o AllActiveActionsAreInAContext(docs, projIter)
    /\ calls' = calls \o [i \in 1..Len(AdHocValidators) |->
                             [rule |-> AdHocValidators[i], on |-> [d |-> "docs"]]]
    /\ pc' = "done"
    /\ UNCHANGED <<fs, docs, projIter, ctxIter, k, project_ids, actions, run, prevOut, parseVars>>

\* the program is started again over the same files
Rerun ==
    /\ pc = "done"
    /\ run < MaxRuns
    /\ run' = run + 1
    /\ prevOut' = out
    /\ pc' = "load"
    /\ docs' = [projects |-> <<>>, contexts |-> <<>>]
    /\ projIter' = <<>>
    /\ ctxIter' = <<>>
    /\ k' = 1
    /\ project_ids' = {}
    /\ actions' = {}
    /\ calls' = <<>>
    /\ out' = <<>>
    /\ UNCHANGED <<fs, parseVars>>

Next ==
    \/ Load
    \/ RunProjectValidators
    \/ RunContextActionValidators
    \/ RunAdHocValidators

Spec == Init /\ [][Next]_vars

NextRerun == Next \/ Rerun

SpecRerun == Init /\ [][NextRerun]_vars

-----------------------------------------------------------------------------
(* Properties of a validation run *)

\* the run has gone through Documents::load
Loaded == pc \in {"projects", "contexts", "adhoc", "done"}

\* the messages of the bullets printed for an entity, in order
RECURSIVE BulletsOf(_, _)
BulletsOf(lines, about) ==
    IF lines = <<>> THEN <<>>
    ELSE (IF Head(lines).kind = "bullet" /\ Head(lines).about = about
          THEN <<Msg(Head(lines).msg, Head(lines).arg)>> ELSE <<>>)
         \o BulletsOf(Tail(lines), about)

\* the texts of the bullets printed for an entity
BulletTexts(about) == {out[i].msg : i \in {j \in 1..Len(out) :
                            out[j].kind = "bullet" /\ out[j].about = about}}

\* the entities of the per-entity rules: the projects and the context actions
ProjectEntities == {[p |-> n] : n \in DOMAIN docs.projects}

ContextActionEntities ==
    UNION {{[c |-> c, i |-> i] : i \in 1..Len(docs.contexts[c].actions)} :
           c \in DOMAIN docs.contexts}

ActionOf(e) == docs.contexts[e.c].actions[e.i]

\* the calls of a rule on an entity
CallsOf(rule, on) == {j \in 1..Len(calls) : calls[j] = [rule |-> rule, on |-> on]}

\* the rules that carry no state: their failure is decided by the entity alone
StatelessProjectFailures(project) ==
    ErrOf(ProjectTitleMatchesName(project))
    \o ErrOf(CompleteProjectHasOnlyCompleteActions(project))
    \o ErrOf(InProgressProjectHasActiveActions(project))

StatelessContextActionFailures(action) ==
    LET project == IF ToActionRef(action) = None THEN None
                   ELSE DocsProject(docs, Unwrap(ToActionRef(action)).project_name)
    IN  ErrOf(ActionLinkIsValid(action, project))
        \o ErrOf(LinkedProjectIsInProgress(action, project))
        \o ErrOf(LinkedProjectContainsAction(action, project))
        \o ErrOf(ActionInProjectIsActive(action, project))

Range(f) == {f[i] : i \in DOMAIN f}

\* C1: when the run is over, every project rule has been invoked exactly
\* once on every project and every context-action rule exactly once on every
\* context action, whatever failed before, and every failure of a rule is a
\* bullet printed for its entity.
C1_NoShortCircuit ==
    pc = "done" =>
        /\ \A e \in ProjectEntities : \A v \in Range(ProjectValidators) :
               Cardinality(CallsOf(v, e)) = 1
        /\ \A e \in ContextActionEntities : \A v \in Range(ContextActionValidators) :
               Cardinality(CallsOf(v, e)) = 1
        /\ \A e \in ProjectEntities :
               Range(StatelessProjectFailures(docs.projects[e.p])) \subseteq Range(BulletsOf(out, e))
        /\ \A e \in ContextActionEntities :
               Range(StatelessContextActionFailures(ActionOf(e))) \subseteq Range(BulletsOf(out, e))

\* a finished run in which a project failed two rules and a later entity
\* failed a rule too
C1_Witness ==
    /\ pc = "done"
    /\ \E i, j \in 1..Len(out) :
           /\ i < j
           /\ out[j].kind = "header"
           /\ Len(BulletsOf(out, out[i].about)) >= 2
           /\ out[i].about \in ProjectEntities
           /\ out[j].about # out[i].about

IsPrefix(a, b) == Len(a) <= Len(b) /\ SubSeq(b, 1, Len(a)) = a

\* position of x in the sequence f, 0 when it is not in it
IndexIn(f, x) == IF \E i \in DOMAIN f : f[i] = x THEN CHOOSE i \in DOMAIN f : f[i] = x ELSE 0

\* the calls of the three phases of run, in the order validate() registers
\* the rules: the project rules on each project, then the context-action
\* rules on each context action, then the ad-hoc rule
C2_Phases ==
    Concat([i \in 1..Len(projIter) |->
               <<[rule |-> "project_id_is_unique", on |-> [p |-> projIter[i]]],
                 [rule |-> "project_title_matches_name", on |-> [p |-> projIter[i]]],
                 [rule |-> "complete_project_has_only_complete_actions",
                  on |-> [p |-> projIter[i]]],
                 [rule |-> "in_progress_project_has_active_actions",
                  on |-> [p |-> projIter[i]]]>>])
    \o Concat([i \in 1..Len(ContextWork(docs, ctxIter)) |->
               <<[rule |-> "action_link_is_valid", on |-> ContextWork(docs, ctxIter)[i]],
                 [rule |-> "linked_project_is_in_progress",
                  on |-> ContextWork(docs, ctxIter)[i]],
                 [rule |-> "linked_project_contains_action",
                  on |-> ContextWork(docs, ctxIter)[i]],
                 [rule |-> "action_in_project_is_active",
                  on |-> ContextWork(docs, ctxIter)[i]],
                 [rule |-> "linked_action_is_unique",
                  on |-> ContextWork(docs, ctxIter)[i]]>>])
    \o <<[rule |-> "all_active_actions_are_in_a_context", on |-> [d |-> "docs"]]>>

\* the failure messages in the order of the rules that produce them
C2_MessageOrder ==
    <<"has a duplicate ID", "has an invalid title in its body",
      "has a name that doesn't match its title",
      "is complete but has at least one uncomplete action",
      "is in progress but has no active actions",
      "not a valid link to project", "linked project is not in progress",
      "linked project doesn't have the action", "action is not active in linked project",
      "action is not unique in contexts">>

\* C2: at every point of a run the rules invoked so far are a prefix of the
\* three phases (project rules per project in registration order, then
\* context-action rules per context action in registration order, then the
\* ad-hoc rule), all of them when the run is over; a reference is reported
\* as no valid link exactly when its project name is not a key of the
\* corpus; and the bullets of one entity are in registration order.
C2_ThreePhases ==
    Loaded =>
        /\ IsPrefix(calls, C2_Phases)
        /\ pc = "done" => calls = C2_Phases
        /\ pc = "done" => \A e \in ContextActionEntities :
               ActionOf(e).kind = "Reference" =>
                   ("not a valid link to project" \in BulletTexts(e)
                        <=> ActionOf(e).ref.project_name \notin DOMAIN docs.projects)
        /\ \A i, j \in 1..Len(out) :
               (i < j /\ out[i].kind = "bullet" /\ out[j].kind = "bullet"
                      /\ out[i].about = out[j].about)
                   => IndexIn(C2_MessageOrder, out[i].msg) < IndexIn(C2_MessageOrder, out[j].msg)

\* a finished run over a project and a context action that failed two rules
C2_Witness ==
    /\ pc = "done"
    /\ Len(projIter) >= 1
    /\ \E e \in ContextActionEntities : Len(BulletsOf(out, e)) >= 2

\* the projects visited before the project of position i that share its id
EarlierWithSameId(i) == {j \in 1..(i - 1) : NameId(projIter[j]) = NameId(projIter[i])}

\* C3: once the loop over the projects is over, "has a duplicate ID" is
\* printed for a project exactly when a project visited before it has the
\* same id: never for the first project of an id, never for a project whose
\* id no other project has, whatever the titles are.
C3_DuplicateIdOnLaterProject ==
    pc \in {"contexts", "adhoc", "done"} =>
        \A i \in 1..Len(projIter) :
            "has a duplicate ID" \in BulletTexts([p |-> projIter[i]])
                <=> EarlierWithSameId(i) # {}

\* a finished run over two projects of the same id and different titles
C3_Witness ==
    /\ pc = "done"
    /\ \E i \in 1..Len(projIter) :
           /\ EarlierWithSameId(i) # {}
           /\ "has a duplicate ID" \in BulletTexts([p |-> projIter[i]])
           /\ \A j \in EarlierWithSameId(i) :
                  "has a duplicate ID" \notin BulletTexts([p |-> projIter[j]])

\* the context actions visited before position i of the work list
Work == ContextWork(docs, ctxIter)

EarlierReferences(i) == {j \in 1..(i - 1) : ActionOf(Work[j]).kind = "Reference"}

\* C4 as stated: "action is not unique in contexts" is printed for a
\* context action exactly when it is a reference and a reference visited
\* before it carries the same ActionId, whatever the two target projects are.
C4_UniqueActionId ==
    pc = "done" =>
        \A i \in 1..Len(Work) :
            "action is not unique in contexts" \in BulletTexts(Work[i])
                <=> /\ ActionOf(Work[i]).kind = "Reference"
                    /\ \E j \in EarlierReferences(i) :
                           ActionOf(Work[j]).ref.action_id = ActionOf(Work[i]).ref.action_id

\* C4 amended: "action is not unique in contexts" is printed for a context
\* action exactly when it is a reference and a reference visited before it
\* has the same project name and the same ActionId.
C4_UniqueActionRef ==
    pc = "done" =>
        \A i \in 1..Len(Work) :
            "action is not unique in contexts" \in BulletTexts(Work[i])
                <=> /\ ActionOf(Work[i]).kind = "Reference"
                    /\ \E j \in EarlierReferences(i) :
                           ActionOf(Work[j]).ref = ActionOf(Work[i]).ref

\* a finished run with two references of the same project and id, the
\* second of them reported, and a run with two references of the same id and
\* different projects, none of them reported
C4_Witness ==
    /\ pc = "done"
    /\ \E i \in 1..Len(Work) : \E j \in EarlierReferences(i) :
           /\ ActionOf(Work[i]).kind = "Reference"
           /\ ActionOf(Work[j]).ref = ActionOf(Work[i]).ref
           /\ "action is not unique in contexts" \in BulletTexts(Work[i])
           /\ "action is not unique in contexts" \notin BulletTexts(Work[j])

\* the context actions that are a reference to the action `id` of the
\* project `name`
ReferencesTo(name, id) ==
    {e \in ContextActionEntities :
        /\ ActionOf(e).kind = "Reference"
        /\ ActionOf(e).ref.project_name = name
        /\ Some(ActionOf(e).ref.action_id) = id}

\* the lines of the ad-hoc rule
AdHocAbout == {out[i].about : i \in {j \in 1..Len(out) : out[j].kind = "adhoc"}}

\* C5: when the run is over, "action is active but isn't in any contexts"
\* has been printed for the active action a of the project n exactly when
\* the project is InProgress and no context action is a reference to the
\* action a of the project n; nothing is printed for another action.
C5_OrphanIffUnreferenced ==
    pc = "done" =>
        /\ \A n \in DOMAIN docs.projects :
               \A a \in 1..Len(docs.projects[n].actions.active) :
                   [p |-> n, a |-> a] \in AdHocAbout
                       <=> /\ docs.projects[n].status = "InProgress"
                           /\ ReferencesTo(n, docs.projects[n].actions.active[a].id) = {}
        /\ \A e \in AdHocAbout :
               /\ e.p \in DOMAIN docs.projects
               /\ e.a \in 1..Len(docs.projects[e.p].actions.active)

\* C6: when the program has ended, a context item that is a block reference
\* whose link is the name of no project of the corpus has got exactly one
\* bullet, "not a valid link to project".
C6_OneFailureForMissingProject ==
    pc \in {"done", "panicked"} =>
        \A c \in DOMAIN fs.contexts : \A i \in 1..Len(fs.contexts[c]) :
            (/\ fs.contexts[c][i].kind = "BlockRef"
             /\ \A n \in DOMAIN fs.projects : n.name # fs.contexts[c][i].link)
                => BulletsOf(out, [c |-> c, i |-> i]) = <<Msg("not a valid link to project", <<>>)>>

\* the only project and the only context of a corpus of one project and one
\* context
TheProject == docs.projects[CHOOSE n \in DOMAIN docs.projects : TRUE]

TheContext == docs.contexts[CHOOSE c \in DOMAIN docs.contexts : TRUE]

\* a corpus of one InProgress project whose body title is the title of its
\* name, and one context whose only action is a reference to the project
\* and the id of its only action
OneProjectOneReference ==
    /\ Cardinality(DOMAIN docs.projects) = 1
    /\ Cardinality(DOMAIN docs.contexts) = 1
    /\ TheProject.status = "InProgress"
    /\ TheProject.title # None
    /\ \E id \in {Id1, Id2} : TheProject.name.name = id \o <<" ">> \o Unwrap(TheProject.title)
    /\ Len(ActionsOf(TheProject.actions)) = 1
    /\ ActionsOf(TheProject.actions)[1].action.id # None
    /\ Len(TheContext.actions) = 1
    /\ TheContext.actions[1].kind = "Reference"
    /\ TheContext.actions[1].ref.project_name = TheProject.name
    /\ Some(TheContext.actions[1].ref.action_id) = ActionsOf(TheProject.actions)[1].action.id

\* scenario B: the action is filed under Complete
ScenarioB == OneProjectOneReference /\ Len(TheProject.actions.complete) = 1

\* scenario A: the action is filed under Active
ScenarioA == OneProjectOneReference /\ Len(TheProject.actions.active) = 1

\* what is printed, without the entities the lines were printed for
Printed(lines) ==
    [i \in 1..Len(lines) |-> [kind |-> lines[i].kind, msg |-> lines[i].msg, arg |-> lines[i].arg]]

\* the failures printed: the bullets and the lines of the ad-hoc rule
Failures(lines) == SelectSeq(Printed(lines), LAMBDA l : l.kind # "header")

\* C7 as stated: the run over scenario B prints exactly one failure,
\* "action is not active in linked project", under the header of the context.
C7_ScenarioBOneFailure ==
    (pc = "done" /\ ScenarioB) =>
        Printed(out) =
            <<[kind |-> "header", msg |-> "action in", arg |-> TheContext.name],
              [kind |-> "bullet", msg |-> "action is not active in linked project",
               arg |-> Unwrap(TheProject.title)]>>

\* C7 amended: the run over scenario B prints exactly two failures: "is in
\* progress but has no active actions" under the header of the project and
\* "action is not active in linked project" under the header of the context.
C7_ScenarioBTwoFailures ==
    (pc = "done" /\ ScenarioB) =>
        Printed(out) =
            <<[kind |-> "header", msg |-> "project", arg |-> TheProject.name.name],
              [kind |-> "bullet", msg |-> "is in progress but has no active actions",
               arg |-> <<>>],
              [kind |-> "header", msg |-> "action in", arg |-> TheContext.name],
              [kind |-> "bullet", msg |-> "action is not active in linked project",
               arg |-> Unwrap(TheProject.title)]>>

\* a finished run over scenario B
C7_Witness == pc = "done" /\ ScenarioB /\ Len(Failures(out)) = 2

\* C8: the run over scenario A prints nothing: no project rule, no
\* context-action rule and no ad-hoc rule reports a failure.
C8_ScenarioANoDiagnostics ==
    (pc = "done" /\ ScenarioA) => out = <<>>

\* a finished run over scenario A, all rules invoked
C8_Witness == pc = "done" /\ ScenarioA /\ out = <<>> /\ calls = C2_Phases

\* C9: a second run of the program over the same files prints what the
\* first run printed.
C9_SameOutputTwice ==
    (pc = "done" /\ run > 1) => Printed(out) = Printed(prevOut)

\* the headers printed for an entity
HeadersOf(about) == {i \in 1..Len(out) : out[i].kind = "header" /\ out[i].about = about}

\* the headers printed with the name of a context
HeadersOfContext(c) ==
    {i \in 1..Len(out) : out[i].kind = "header" /\ out[i].msg = "action in" /\ out[i].arg = c}

\* the lines of the per-entity rules are groups: a header is followed by a
\* bullet of its entity, and a bullet follows the header or a bullet of its
\* entity
Grouped ==
    \A i \in 1..Len(out) :
        /\ out[i].kind = "header" =>
               i < Len(out) /\ out[i + 1].kind = "bullet" /\ out[i + 1].about = out[i].about
        /\ out[i].kind = "bullet" =>
               i > 1 /\ out[i - 1].kind \in {"header", "bullet"} /\ out[i - 1].about = out[i].about

\* an entity fails a rule: a rule without state fails, or the entity is a
\* duplicate of one visited before
ProjectFails(i) ==
    \/ StatelessProjectFailures(docs.projects[projIter[i]]) # <<>>
    \/ EarlierWithSameId(i) # {}

ContextActionFails(i) ==
    \/ StatelessContextActionFailures(ActionOf(Work[i])) # <<>>
    \/ /\ ActionOf(Work[i]).kind = "Reference"
       /\ \E j \in EarlierReferences(i) : ActionOf(Work[j]).ref = ActionOf(Work[i]).ref

\* C10 as stated: the lines of the per-entity rules are groups, with exactly
\* one header for each project with a failing rule and exactly one header
\* for each context with a failing rule, and none for the others.
C10_OneHeaderPerContext ==
    pc = "done" =>
        /\ Grouped
        /\ \A i \in 1..Len(projIter) :
               Cardinality(HeadersOf([p |-> projIter[i]])) = (IF ProjectFails(i) THEN 1 ELSE 0)
        /\ \A c \in DOMAIN docs.contexts :
               Cardinality(HeadersOfContext(c))
                   = (IF \E i \in 1..Len(Work) : Work[i].c = c /\ ContextActionFails(i)
                      THEN 1 ELSE 0)

\* C10 amended: the lines of the per-entity rules are groups, with exactly
\* one header for each project with a failing rule and exactly one header,
\* naming the context, for each context action with a failing rule, and no
\* header and no bullet for the others.
C10_OneHeaderPerContextAction ==
    pc = "done" =>
        /\ Grouped
        /\ \A i \in 1..Len(projIter) :
               /\ Cardinality(HeadersOf([p |-> projIter[i]])) = (IF ProjectFails(i) THEN 1 ELSE 0)
               /\ ProjectFails(i) <=> BulletTexts([p |-> projIter[i]]) # {}
        /\ \A i \in 1..Len(Work) :
               /\ Cardinality(HeadersOf(Work[i])) = (IF ContextActionFails(i) THEN 1 ELSE 0)
               /\ ContextActionFails(i) <=> BulletTexts(Work[i]) # {}
               /\ \A h \in HeadersOf(Work[i]) : out[h].arg = Work[i].c

\* a finished run over a context with two failing actions, and a project
\* without a failing rule
C10_Witness ==
    /\ pc = "done"
    /\ \E i, j \in 1..Len(Work) :
           i # j /\ Work[i].c = Work[j].c /\ ContextActionFails(i) /\ ContextActionFails(j)
    /\ \E i \in 1..Len(projIter) : ~ProjectFails(i)

-----------------------------------------------------------------------------
(* pulldown_cmark: the events of a Markdown text *)

\* Tag
Heading(level) == [tag |-> "Heading", level |-> level]

Paragraph == [tag |-> "Paragraph"]

List(ordered) == [tag |-> "List", ordered |-> ordered]

Item == [tag |-> "Item"]

Emphasis == [tag |-> "Emphasis"]

\* Event
Start(tag) == [ev |-> "Start", tag |-> tag]

End(tag) == [ev |-> "End", tag |-> tag]

Text(s) == [ev |-> "Text", s |-> s]

Code(s) == [ev |-> "Code", s |-> s]

SoftBreak == [ev |-> "SoftBreak"]

Rule == [ev |-> "Rule"]

\* Result: Ok(val) or Err(err)
Ok(val) == [ok |-> TRUE, val |-> val]

Err(err) == [ok |-> FALSE, err |-> err]

-----------------------------------------------------------------------------
(* parser.rs: the operations of Parser.  An operation takes the events that *)
(* are still to come and returns its value and the events still to come     *)
(* after it.                                                                *)

\* Actual
Eof == [actual |-> "Eof"]

ActualEvent(ev) == [actual |-> "Event", event |-> ev]

\* ParseError
Unexpected(expected, actual) == [error |-> "Unexpected", expected |-> expected, actual |-> actual]

CouldntParseHeading(e) == [error |-> "CouldntParseHeading", cause |-> e]

\* Parser::peek
Peek(p) == IF p = <<>> THEN None ELSE Some(Head(p))

\* the `matches` closures of parse_text, parse_start and parse_end: any
\* text, or the event itself
Matches(want, ev) ==
    IF want.ev = "Text" THEN ev.ev = "Text" ELSE ev = want

\* the `extract` closures: the text of the event, or the event
Extract(want, ev) ==
    IF want.ev = "Text" THEN (IF ev.ev = "Text" THEN Some(ev.s) ELSE None) ELSE Some(ev)

\* a parse_general that takes the event it does not expect
ParseGeneralTakesMismatch(p, want) ==
    IF Peek(p) # None
    THEN IF Matches(want, Head(p))
         THEN [ret |-> Ok(Unwrap(Extract(want, Head(p)))), parser |-> Tail(p)]
         ELSE [ret |-> Err(Unexpected(want, ActualEvent(Head(p)))), parser |-> Tail(p)]
    ELSE [ret |-> Err(Unexpected(want, Eof)), parser |-> p]

\* Parser::parse_general; want is the event `expected` generates
ParseGeneral(p, want) ==
    IF Peek(p) # None
    THEN IF Matches(want, Head(p))
         THEN [ret |-> Ok(Unwrap(Extract(want, Head(p)))), parser |-> Tail(p)]
         ELSE [ret |-> Err(Unexpected(want, ActualEvent(Head(p)))), parser |-> p]
    ELSE [ret |-> Err(Unexpected(want, Eof)), parser |-> p]

ParseText(p) == ParseGeneral(p, Text(<<" ">>))

ParseStart(p, tag) == ParseGeneral(p, Start(tag))

ParseEnd(p, tag) == ParseGeneral(p, End(tag))

\* Fragment::from_events: the events, made 'static
FragmentFromEvents(events) == [i \in 1..Len(events) |-> events[i]]

\* a loop of parse_until that takes the boundary too
RECURSIVE ParseUntilLoopTakesBoundary(_, _, _)
ParseUntilLoopTakesBoundary(p, until, frag) ==
    IF Peek(p) = None THEN [ret |-> FragmentFromEvents(frag), parser |-> p]
    ELSE IF Peek(p) = Some(until)
    THEN [ret |-> FragmentFromEvents(Append(frag, Head(p))), parser |-> Tail(p)]
    ELSE ParseUntilLoopTakesBoundary(Tail(p), until, Append(frag, Head(p)))

\* the loop of parse_until
RECURSIVE ParseUntilLoop(_, _, _)
ParseUntilLoop(p, until, frag) ==
    IF Peek(p) = None \/ Peek(p) = Some(until)
    THEN [ret |-> FragmentFromEvents(frag), parser |-> p]
    ELSE ParseUntilLoop(Tail(p), until, Append(frag, Head(p)))

\* a parse_until whose sections of level 2 run to the end of the events
ParseUntilStream(p, until) ==
    IF until = Start(Heading(2)) THEN [ret |-> FragmentFromEvents(p), parser |-> <<>>]
    ELSE ParseUntilLoop(p, until, <<>>)

\* Parser::parse_until
ParseUntil(p, until) == ParseUntilLoop(p, until, <<>>)

\* the least of a set of numbers
Min(S) == CHOOSE i \in S : \A j \in S : i <= j

\* str::split at a character
RECURSIVE Split(_, _)
Split(s, c) ==
    IF \E i \in 1..Len(s) : s[i] = c
    THEN LET i == Min({j \in 1..Len(s) : s[j] = c})
         IN  <<SubSeq(s, 1, i - 1)>> \o Split(SubSeq(s, i + 1, Len(s)), c)
    ELSE <<s>>

\* str::trim_start_matches of a character: every leading one is removed
RECURSIVE TrimStartMatches(_, _)
TrimStartMatches(s, c) ==
    IF s # <<>> /\ s[1] = c
    THEN Some(IF TrimStartMatches(Tail(s), c) = None THEN Tail(s)
              ELSE Unwrap(TrimStartMatches(Tail(s), c)))
    ELSE None

\* str::strip_prefix of a character
StripPrefix(s, c) == IF s # <<>> /\ s[1] = c THEN Some(Tail(s)) ELSE None

\* the closure of parse_tags over the text of the paragraph
TagsOfText(t) ==
    Concat([i \in 1..Len(Split(t, " ")) |->
               IF StripPrefix(Split(t, " ")[i], "#") = None THEN <<>>
               ELSE <<Unwrap(StripPrefix(Split(t, " ")[i], "#"))>>])

\* the closures handed to parse_element and parse_element_res: the
\* parse_until of parse_heading and parse_item, and the closure of parse_tags
Closure(func, p) ==
    LET until_closure(r) == [ret |-> Ok(r.ret), parser |-> r.parser]
        tags_closure(t) ==
            IF ~t.ret.ok THEN t ELSE [ret |-> Ok(TagsOfText(t.ret.val)), parser |-> t.parser]
    IN  CASE func.fn = "parse_until" -> until_closure(ParseUntil(p, func.until))
          [] func.fn = "parse_tags" -> tags_closure(ParseText(p))

\* Parser::parse_element_res (and parse_element, whose func cannot fail):
\* s is what parse_start returned, output what func returned, e what
\* parse_end returned
ParseElementRes(p, tag, func) ==
    LET after_end(output, e) ==
            IF ~e.ret.ok THEN [ret |-> e.ret, parser |-> e.parser]
            ELSE [ret |-> Ok(output.ret.val), parser |-> e.parser]
        after_func(output) ==
            IF ~output.ret.ok THEN [ret |-> output.ret, parser |-> output.parser]
            ELSE after_end(output, ParseEnd(output.parser, tag))
        after_start(s) ==
            IF ~s.ret.ok THEN [ret |-> s.ret, parser |-> s.parser]
            ELSE after_func(Closure(func, s.parser))
    IN  after_start(ParseStart(p, tag))

\* Parser::parse_item
ParseItem(p) == ParseElementRes(p, Item, [fn |-> "parse_until", until |-> End(Item)])

\* the loop of parse_general_list over parse_item: e is what parse_end
\* returned, i what parse_item returned
RECURSIVE ParseGeneralListLoop(_, _, _)
ParseGeneralListLoop(p, ordered, items) ==
    LET after_item(i) ==
            IF ~i.ret.ok THEN [ret |-> i.ret, parser |-> i.parser]
            ELSE ParseGeneralListLoop(i.parser, ordered, Append(items, i.ret.val))
        after_end(e) ==
            IF e.ret.ok THEN [ret |-> Ok(items), parser |-> e.parser]
            ELSE after_item(ParseItem(e.parser))
    IN  after_end(ParseEnd(p, List(ordered)))

\* Parser::parse_general_list with parse_item as its item_parser
ParseGeneralList(p, ordered) ==
    LET after_start(s) ==
            IF ~s.ret.ok THEN [ret |-> s.ret, parser |-> s.parser]
            ELSE ParseGeneralListLoop(s.parser, ordered, <<>>)
    IN  after_start(ParseStart(p, List(ordered)))

\* Parser::parse_list
ParseList(p) == ParseGeneralList(p, None)

-----------------------------------------------------------------------------
(* The parser over the events of a text *)

\* the state of the validation run, which the parsing functions leave alone
validateVars ==
    <<fs, pc, docs, projIter, ctxIter, k, project_ids, actions, calls, out, run, prevOut>>

\* no validation is running
NoValidation ==
    /\ fs = [projects |-> <<>>, contexts |-> <<>>]
    /\ pc = "parse"
    /\ docs = [projects |-> <<>>, contexts |-> <<>>]
    /\ projIter = <<>>
    /\ ctxIter = <<>>
    /\ k = 1
    /\ project_ids = {}
    /\ actions = {}
    /\ calls = <<>>
    /\ out = <<>>
    /\ run = 1
    /\ prevOut = <<>>

\* number of items of a list of the text
MaxItems == 2

\* an item of a nested list
NestedItem == <<Start(Item), Text(<<"b">>), End(Item)>>

\* the lists nested in an item: unordered or ordered, of one or two items
NestedLists ==
    {<<Start(List(o))>> \o Concat(items) \o <<End(List(o))>> :
        o \in {None, Some(1)}, items \in SeqsOfLen({NestedItem}, 1) \cup SeqsOfLen({NestedItem}, 2)}

\* the events of an item: a text, or a text and a nested list
ListItems ==
    {<<Start(Item)>> \o body \o <<End(Item)>> :
        body \in {<<Text(<<"a">>)>>} \cup {<<Text(<<"a">>)>> \o l : l \in NestedLists}}

\* the events of an unordered list
Lists ==
    {<<Start(List(None))>> \o Concat(items) \o <<End(List(None))>> :
        items \in UNION {SeqsOfLen(ListItems, n) : n \in 1..MaxItems}}

\* the events of a text that is a list, alone or followed by a rule
WellNestedStreams == {l \o t : l \in Lists, t \in {<<>>, <<Rule>>}}

\* the events of a paragraph of a text and a code span
ParagraphStream ==
    <<Start(Paragraph), Text(<<"a", " ">>), Code(<<"b">>), End(Paragraph)>>

\* the events of the texts: a list, a paragraph, an empty text
EventStreams == WellNestedStreams \cup {ParagraphStream, <<>>}

\* the tags and the boundaries the operations are called with
ParserTags == {List(None), List(Some(1)), Item}

Boundaries == {End(Item), End(List(None)), Start(List(None))}

\* Parser::new over a text
InitParser ==
    /\ NoValidation
    /\ input \in EventStreams
    /\ parser = input
    /\ call = [fn |-> "none"]
    /\ ret = [fn |-> "none"]

\* Iterator::next of Parser
IteratorNext ==
    /\ call' = [fn |-> "next", before |-> parser]
    /\ ret' = Peek(parser)
    /\ parser' = IF parser = <<>> THEN parser ELSE Tail(parser)
    /\ UNCHANGED <<input, validateVars>>

CallParseText ==
    /\ call' = [fn |-> "parse_text", before |-> parser]
    /\ ret' = ParseText(parser).ret
    /\ parser' = ParseText(parser).parser
    /\ UNCHANGED <<input, validateVars>>

CallParseStart ==
    \E tag \in ParserTags :
        /\ call' = [fn |-> "parse_start", tag |-> tag, before |-> parser]
        /\ ret' = ParseStart(parser, tag).ret
        /\ parser' = ParseStart(parser, tag).parser
        /\ UNCHANGED <<input, validateVars>>

CallParseEnd ==
    \E tag \in ParserTags :
        /\ call' = [fn |-> "parse_end", tag |-> tag, before |-> parser]
        /\ ret' = ParseEnd(parser, tag).ret
        /\ parser' = ParseEnd(parser, tag).parser
        /\ UNCHANGED <<input, validateVars>>

CallParseUntil ==
    \E until \in Boundaries :
        /\ call' = [fn |-> "parse_until", until |-> until, before |-> parser]
        /\ ret' = ParseUntil(parser, until).ret
        /\ parser' = ParseUntil(parser, until).parser
        /\ UNCHANGED <<input, validateVars>>

CallParseItem ==
    /\ call' = [fn |-> "parse_item", before |-> parser]
    /\ ret' = ParseItem(parser).ret
    /\ parser' = ParseItem(parser).parser
    /\ UNCHANGED <<input, validateVars>>

CallParseList ==
    /\ call' = [fn |-> "parse_list", before |-> parser]
    /\ ret' = ParseList(parser).ret
    /\ parser' = ParseList(parser).parser
    /\ UNCHANGED <<input, validateVars>>

NextParser ==
    \/ IteratorNext
    \/ CallParseText
    \/ CallParseStart
    \/ CallParseEnd
    \/ CallParseUntil
    \/ CallParseItem
    \/ CallParseList

SpecParser == InitParser /\ [][NextParser]_vars

-----------------------------------------------------------------------------
(* Properties of the parser *)

\* the event an expecting operation was called for
Expected ==
    CASE call.fn = "parse_text" -> Text(<<" ">>)
      [] call.fn = "parse_start" -> Start(call.tag)
      [] call.fn = "parse_end" -> End(call.tag)

\* the next event before the call is the one the operation was called for
NextMatched ==
    /\ call.before # <<>>
    /\ IF call.fn = "parse_text" THEN Head(call.before).ev = "Text"
       ELSE Head(call.before) = Expected

\* C12: after parse_start, parse_end or parse_text: when the next event
\* matched, the call returned Ok with it and exactly that one event is
\* consumed; when it did not, the call returned Unexpected with the expected
\* event and the actual next event, or end-of-stream, and the events to come
\* are the same as before.
C12_ExpectConsumesIffMatch ==
    call.fn \in {"parse_text", "parse_start", "parse_end"} =>
        IF NextMatched
        THEN /\ ret.ok
             /\ parser = Tail(call.before)
             /\ ret.val = IF call.fn = "parse_text" THEN Head(call.before).s
                          ELSE Head(call.before)
        ELSE /\ ~ret.ok
             /\ ret.err = Unexpected(Expected, IF call.before = <<>> THEN Eof
                                               ELSE ActualEvent(Head(call.before)))
             /\ parser = call.before

\* a parse_end that met another event and left it in place
C12_Witness ==
    /\ call.fn = "parse_end"
    /\ ~ret.ok
    /\ ret.err.actual # Eof
    /\ parser # <<>>
    /\ parser = call.before

\* the positions of an event in a stream
Occurrences(s, ev) == {i \in 1..Len(s) : s[i] = ev}

\* C13: after parse_until: the fragment returned is the events before the
\* first occurrence of the boundary, in order, and the boundary is the next
\* event; when the boundary does not occur the fragment is all the events
\* and none is left.
C13_ParseUntilLongestPrefix ==
    call.fn = "parse_until" =>
        LET occ == Occurrences(call.before, call.until)
            n == IF occ = {} THEN Len(call.before) ELSE Min(occ) - 1
        IN  /\ ret = SubSeq(call.before, 1, n)
            /\ parser = SubSeq(call.before, n + 1, Len(call.before))
            /\ occ # {} => Head(parser) = call.until
            /\ occ = {} => parser = <<>>

\* a parse_until that returned some events and stopped at the first of two
\* occurrences of its boundary
C13_Witness ==
    /\ call.fn = "parse_until"
    /\ ret # <<>>
    /\ parser # <<>>
    /\ Head(parser) = call.until
    /\ Cardinality(Occurrences(call.before, call.until)) >= 2

IsListStart(ev) == ev.ev = "Start" /\ ev.tag.tag = "List"

IsListEnd(ev) == ev.ev = "End" /\ ev.tag.tag = "List"

\* the number of lists that are open after the first i events of a stream
ListDepth(s, i) ==
    Cardinality({j \in 1..i : IsListStart(s[j])}) - Cardinality({j \in 1..i : IsListEnd(s[j])})

\* the position of the list-end that matches the list-start a stream begins
\* with
MatchingEnd(s) == Min({i \in 1..Len(s) : ListDepth(s, i) = 0})

\* the number of items of the list a stream begins with
TopLevelItems(s) == Cardinality({i \in 1..Len(s) : s[i] = Start(Item) /\ ListDepth(s, i) = 1})

\* C14: a successful parse_list at the start of a well-nested stream that
\* begins with an unordered list returns one fragment for each item of that
\* list and consumes the events up to and including the matching list-end.
C14_ParseListConsumesWholeList ==
    (call.fn = "parse_list" /\ call.before \in WellNestedStreams /\ ret.ok) =>
        /\ Len(ret.val) = TopLevelItems(call.before)
        /\ parser = SubSeq(call.before, MatchingEnd(call.before) + 1, Len(call.before))

\* parse_list has consumed the list-start
ListStartConsumed ==
    call.fn = "parse_list" /\ call.before # <<>> /\ Head(call.before) = Start(List(None))

\* C15: once the list-start is consumed, parse_list returns Ok, whatever
\* item cannot be parsed after it.
C15_BestEffortList == ListStartConsumed => ret.ok

-----------------------------------------------------------------------------
(* project.rs: Action::from_fragment *)

\* a character of two bytes in UTF-8 (U+00E9); the other characters of the
\* texts are ASCII
TwoByteChar == "U+00E9"

\* str::len counts bytes
Utf8Len(c) == IF c = TwoByteChar THEN 2 ELSE 1

RECURSIVE StrLen(_)
StrLen(s) == IF s = <<>> THEN 0 ELSE Utf8Len(Head(s)) + StrLen(Tail(s))

\* char::is_whitespace
Whitespace == {" ", "\t", "\n"}

\* str::trim_end
RECURSIVE TrimEnd(_)
TrimEnd(s) ==
    IF s # <<>> /\ s[Len(s)] \in Whitespace THEN TrimEnd(SubSeq(s, 1, Len(s) - 1)) ELSE s

\* str::rfind of a character: its last position, None when it is not there
RFind(s, c) ==
    IF \E i \in 1..Len(s) : s[i] = c
    THEN Some(CHOOSE i \in 1..Len(s) : s[i] = c /\ \A j \in (i + 1)..Len(s) : s[j] # c)
    ELSE None

\* length in bytes of the id of an action
ACTION_ID_LEN == 6

\* split_id: None, or the rest of the event (an Option) and the id
SplitId(ev) ==
    IF ev.ev # "Text" THEN None
    ELSE IF RFind(ev.s, "^") = None THEN None
    ELSE LET idx == Unwrap(RFind(ev.s, "^"))
             id == SubSeq(ev.s, idx + 1, Len(ev.s))
             trimmed == TrimEnd(SubSeq(ev.s, 1, idx - 1))
             rest == IF trimmed = <<>> THEN None ELSE Some(Text(trimmed))
         IN  IF StrLen(id) # ACTION_ID_LEN THEN None
             ELSE Some([rest |-> rest, id |-> id])

\* project::Action::from_fragment
ProjectActionFromFragment(frag) ==
    IF frag = <<>> THEN [text |-> FragmentFromEvents(<<>>), id |-> None]
    ELSE LET evs == SubSeq(frag, 1, Len(frag) - 1)
             last_ev == frag[Len(frag)]
             split == SplitId(last_ev)
         IN  IF split = None
             THEN [text |-> FragmentFromEvents(Append(evs, last_ev)), id |-> None]
             ELSE [text |-> FragmentFromEvents(
                               IF Unwrap(split).rest = None THEN evs
                               ELSE Append(evs, Unwrap(Unwrap(split).rest))),
                   id |-> Some(Unwrap(split).id)]

\* number of characters after the caret of an action's text
MaxIdChars == 7

\* n times the character c
Repeat(c, n) == [i \in 1..n |-> c]

\* what follows the caret: letters, one of them perhaps another character
IdTexts ==
    UNION {{Repeat("a", n)}
           \cup {[Repeat("a", n) EXCEPT ![i] = c] : i \in 1..n, c \in {"^", " ", TwoByteChar}} :
           n \in 5..MaxIdChars}

\* what comes before the caret
ActionTexts == {<<>>, <<" ">>, <<"x">>, <<"x", " ">>, <<"x", " ", " ">>}

\* the last text of an action: with a caret, or without one
LastTexts ==
    ActionTexts
    \cup {t \o <<"^">> \o id : t \in ActionTexts, id \in IdTexts}
    \cup {t \o id : t \in ActionTexts, id \in IdTexts}

\* the events before the last one
LeadingEvents ==
    {<<>>, <<Text(<<"y", " ">>)>>,
     <<Text(<<"y", " ">>), Start(Emphasis), Text(<<"e">>), End(Emphasis)>>}

\* the fragments of the items of a project's list
ActionFragments ==
    {<<>>}
    \cup {l \o <<Text(t)>> : l \in LeadingEvents, t \in LastTexts}
    \cup {l \o <<e>> : l \in LeadingEvents, e \in {End(Emphasis), Code(<<"x", " ", "^", "a", "a", "a", "a", "a", "a">>)}}

InitAction ==
    /\ NoValidation
    /\ input \in ActionFragments
    /\ parser = <<>>
    /\ call = [fn |-> "none"]
    /\ ret = [fn |-> "none"]

CallProjectActionFromFragment ==
    /\ call.fn = "none"
    /\ call' = [fn |-> "project::Action::from_fragment", frag |-> input]
    /\ ret' = ProjectActionFromFragment(input)
    /\ UNCHANGED <<input, parser, validateVars>>

NextAction == CallProjectActionFromFragment

SpecAction == InitAction /\ [][NextAction]_vars

\* the fragment ends in a text that ends in " ^" and six characters
EndsInCaretId(frag) ==
    /\ frag # <<>>
    /\ frag[Len(frag)].ev = "Text"
    /\ LET t == frag[Len(frag)].s
       IN  Len(t) >= 8 /\ t[Len(t) - 7] = " " /\ t[Len(t) - 6] = "^"

\* the text of the last event without the " ^", the six characters and the
\* whitespace before them
BeforeCaretId(frag) ==
    LET t == frag[Len(frag)].s
        b == SubSeq(t, 1, Len(t) - 8)
    IN  IF \E i \in 1..Len(b) : b[i] \notin Whitespace
        THEN SubSeq(b, 1, CHOOSE i \in 1..Len(b) :
                              b[i] \notin Whitespace /\ \A j \in (i + 1)..Len(b) : b[j] \in Whitespace)
        ELSE <<>>

\* C17: for a fragment whose last event is a text that ends in " ^" and six
\* characters, from_fragment returns those six characters as the id, and as
\* the text the events before the last one, unchanged, followed by the last
\* text without that suffix and the whitespace before it, if any of it is
\* left.
C17_IdIsTheSixCharacters ==
    (call.fn = "project::Action::from_fragment" /\ EndsInCaretId(call.frag)) =>
        LET frag == call.frag
            t == frag[Len(frag)].s
        IN  /\ ret.id = Some(SubSeq(t, Len(t) - 5, Len(t)))
            /\ ret.text = SubSeq(frag, 1, Len(frag) - 1)
                          \o (IF BeforeCaretId(frag) = <<>> THEN <<>>
                              ELSE <<Text(BeforeCaretId(frag))>>)

\* C18: for a fragment that does not end in a text that ends in " ^" and
\* six characters, from_fragment returns no id and the fragment as the text.
C18_NoIdWithoutSuffix ==
    (call.fn = "project::Action::from_fragment" /\ ~EndsInCaretId(call.frag)) =>
        /\ ret.id = None
        /\ ret.text = call.frag

-----------------------------------------------------------------------------
(* markdown.rs: Heading, Doc and BlockRef; parser.rs: parse_heading and     *)
(* parse_tags                                                              *)

\* a panic: the function does not return
Panic == [ok |-> FALSE, panic |-> TRUE]

IsErr(r) == ~r.ok /\ "err" \in DOMAIN r

IsPanic(r) == ~r.ok /\ "panic" \in DOMAIN r

\* HeadingEvent::try_from and HeadingTag::try_from
HeadingEventTryFrom(event) ==
    CASE event.ev \in {"Start", "End"} ->
            IF event.tag.tag \in {"Emphasis", "Strong", "Strikethrough", "Link", "Image"}
            THEN Ok(event)
            ELSE Err([error |-> IF event.ev = "Start" THEN "InvalidStartTag" ELSE "InvalidEndTag",
                      tag |-> event.tag])
      [] event.ev \in {"Text", "Code", "Html", "FootnoteReference"} -> Ok(event)
      [] OTHER -> Err([error |-> "InvalidEvent", event |-> event])

\* Heading::try_from(Fragment): the heading, or the error of the first
\* event that is none of a heading
HeadingTryFrom(fragment) ==
    LET bad == {i \in 1..Len(fragment) : ~HeadingEventTryFrom(fragment[i]).ok}
    IN  IF bad = {} THEN Ok([i \in 1..Len(fragment) |-> HeadingEventTryFrom(fragment[i]).val])
        ELSE Err(HeadingEventTryFrom(fragment[Min(bad)]).err)

\* Heading::try_as_str (called as try_to_text)
HeadingTryAsStr(heading) ==
    IF Len(heading) = 1 /\ heading[1].ev = "Text" THEN Some(heading[1].s) ELSE None

\* Heading::try_as_title_string (called as try_to_title_string)
HeadingTryAsTitleString(heading) ==
    IF \E i \in 1..Len(heading) : heading[i].ev \notin {"Text", "Code"} THEN None
    ELSE Some(Concat([i \in 1..Len(heading) |-> heading[i].s]))

\* Parser::parse_heading: r is what parse_element returned, heading what
\* Heading::try_from returned
ParseHeading(p, level) ==
    LET after_try_from(r, heading) ==
            IF ~heading.ok
            THEN [ret |-> Err(CouldntParseHeading(heading.err)), parser |-> r.parser]
            ELSE [ret |-> Ok(heading.val), parser |-> r.parser]
        after_element(r) ==
            IF ~r.ret.ok THEN r ELSE after_try_from(r, HeadingTryFrom(r.ret.val))
    IN  after_element(ParseElementRes(p, Heading(level),
                                      [fn |-> "parse_until", until |-> End(Heading(level))]))

\* Parser::parse_tags
ParseTags(p) == ParseElementRes(p, Paragraph, [fn |-> "parse_tags"])

\* a Doc::parse that returns the error of its tags
DocParseTagsRequired(text) ==
    LET after_tags(title, tags) ==
            IF ~tags.ret.ok THEN tags
            ELSE [ret |-> Ok([title |-> title.ret.val, tags |-> tags.ret.val,
                              parser |-> tags.parser]),
                  parser |-> tags.parser]
        after_title(title) ==
            IF ~title.ret.ok THEN title ELSE after_tags(title, ParseTags(title.parser))
    IN  after_title(ParseHeading(text, 1))

\* Doc::parse: the title, the tags and the parser after them; with an
\* error of parse_tags the tags are empty and the parser stays where
\* parse_tags left it
DocParse(text) ==
    LET after_tags(title, tags) ==
            [ret |-> Ok([title |-> title.ret.val,
                         tags |-> IF tags.ret.ok THEN tags.ret.val ELSE <<>>,
                         parser |-> tags.parser]),
             parser |-> tags.parser]
        after_title(title) ==
            IF ~title.ret.ok THEN title ELSE after_tags(title, ParseTags(title.parser))
    IN  after_title(ParseHeading(text, 1))

\* str::rfind of "#^": the position of its last occurrence
RFindHashCaret(s) ==
    LET at == {i \in 1..(Len(s) - 1) : s[i] = "#" /\ s[i + 1] = "^"}
    IN  IF at = {} THEN None ELSE Some(CHOOSE i \in at : \A j \in at : j <= i)

\* str::find of "#^": the position of its first occurrence
FindHashCaret(s) ==
    LET at == {i \in 1..(Len(s) - 1) : s[i] = "#" /\ s[i + 1] = "^"}
    IN  IF at = {} THEN None ELSE Some(Min(at))

\* BlockRef::from_fragment
BlockRefFromFragment(frag) ==
    IF Len(frag) # 5 THEN None
    ELSE IF frag[1] \notin {Text(<<"!", "[">>), Text(<<"[">>)} THEN None
    ELSE IF frag[2] # Text(<<"[">>) THEN None
    ELSE IF frag[3].ev # "Text" THEN None
    ELSE IF frag[4] # Text(<<"]">>) \/ frag[5] # Text(<<"]">>) THEN None
    ELSE IF FindHashCaret(frag[3].s) = None THEN None
    ELSE LET idx == Unwrap(FindHashCaret(frag[3].s))
         IN  Some([link |-> SubSeq(frag[3].s, 1, idx - 1),
                   id |-> SubSeq(frag[3].s, idx + 2, Len(frag[3].s)),
                   is_embedded |-> frag[1] = Text(<<"!", "[">>)])

-----------------------------------------------------------------------------
(* context.rs: Context::parse *)

\* context::Action::from_fragment of a fragment of events
ContextAction(fragment) ==
    LET block_ref == BlockRefFromFragment(fragment)
    IN  IF block_ref = None THEN [kind |-> "Literal", fragment |-> fragment]
        ELSE ContextActionFromFragment([kind |-> "BlockRef",
                                        link |-> Unwrap(block_ref).link,
                                        id |-> Unwrap(block_ref).id])

\* context::ParseError::ParseError and project::ParseError::ParseError
WrappedParseError(e) == [error |-> "ParseError", cause |-> e]

\* Context::parse: what it returns, and where its parser stopped; doc is
\* what Doc::parse returned, list what parse_list returned
ContextParse(filename, text) ==
    LET collected(doc, list, acts) ==
            IF \E i \in 1..Len(acts) : acts[i].kind = "panic"
            THEN [ret |-> Panic, parser |-> list.parser]
            ELSE [ret |-> Ok([name |-> filename, title |-> doc.ret.val.title,
                              actions |-> acts]),
                  parser |-> list.parser]
        mapped(doc, list, fragments) ==
            collected(doc, list, [i \in 1..Len(fragments) |-> ContextAction(fragments[i])])
        after_list(doc, list) ==
            mapped(doc, list, IF list.ret.ok THEN list.ret.val ELSE <<>>)
        after_doc(doc) ==
            IF ~doc.ret.ok
            THEN [ret |-> Err(WrappedParseError(doc.ret.err)), parser |-> doc.parser]
            ELSE after_list(doc, ParseList(doc.parser))
    IN  after_doc(DocParse(text))

-----------------------------------------------------------------------------
(* project.rs: Project::parse *)

SOMEDAY_TAG == <<"s", "o", "m", "e", "d", "a", "y">>

IN_PROGRESS_TAG == <<"i", "n", "-", "p", "r", "o", "g", "r", "e", "s", "s">>

COMPLETE_TAG == <<"c", "o", "m", "p", "l", "e", "t", "e">>

\* the titles of the sections
GoalTitle == <<"G", "o", "a", "l">>

InfoTitle == <<"I", "n", "f", "o">>

ActionsTitle == <<"A", "c", "t", "i", "o", "n", "s">>

ActionItemsTitle == <<"A", "c", "t", "i", "o", "n", " ", "I", "t", "e", "m", "s">>

ActiveTitle == <<"A", "c", "t", "i", "v", "e">>

UpcomingTitle == <<"U", "p", "c", "o", "m", "i", "n", "g">>

CompleteTitle == <<"C", "o", "m", "p", "l", "e", "t", "e">>

\* Status::try_from(&str)
StatusTryFrom(t) ==
    CASE t = SOMEDAY_TAG -> Some("Someday")
      [] t = IN_PROGRESS_TAG -> Some("InProgress")
      [] t = COMPLETE_TAG -> Some("Complete")
      [] OTHER -> None

\* Parser::parse_list_opt: the list that is next, or no item when no list
\* is next
ParseListOpt(p) ==
    IF Peek(p) = Some(Start(List(None))) THEN ParseList(p) ELSE [ret |-> Ok(<<>>), parser |-> p]

\* the loop of Actions::parse over the level-3 sections: section_heading
\* is what parse_heading(3) returned, section_title what try_to_text
\* returned, list what parse_list_opt returned
RECURSIVE ActionsParseLoop(_, _)
ActionsParseLoop(p, acts) ==
    LET assigned(section_title, parsed) ==
            CASE section_title = ActiveTitle -> [acts EXCEPT !.active = parsed]
              [] section_title = UpcomingTitle -> [acts EXCEPT !.upcoming = parsed]
              [] section_title = CompleteTitle -> [acts EXCEPT !.complete = parsed]
        after_list(section_title, list) ==
            IF ~list.ret.ok
            THEN [ret |-> Err(WrappedParseError(list.ret.err)), parser |-> list.parser]
            ELSE ActionsParseLoop(
                     list.parser,
                     assigned(section_title,
                              [i \in 1..Len(list.ret.val) |->
                                  ProjectActionFromFragment(list.ret.val[i])]))
        after_title(section_heading, section_title) ==
            IF section_title = None
            THEN [ret |-> Err([error |-> "HasSectionWithNonStringTitle",
                               heading |-> section_heading.ret.val]),
                  parser |-> section_heading.parser]
            ELSE IF Unwrap(section_title) \notin {ActiveTitle, UpcomingTitle, CompleteTitle}
            THEN [ret |-> Err([error |-> "HasUnexpectedSection",
                               heading |-> section_heading.ret.val]),
                  parser |-> section_heading.parser]
            ELSE after_list(Unwrap(section_title), ParseListOpt(section_heading.parser))
        after_heading(section_heading) ==
            IF ~section_heading.ret.ok
            THEN [ret |-> Err(WrappedParseError(section_heading.ret.err)),
                  parser |-> section_heading.parser]
            ELSE after_title(section_heading, HeadingTryAsStr(section_heading.ret.val))
    IN  IF Peek(p) # Some(Start(Heading(3))) THEN [ret |-> Ok(acts), parser |-> p]
        ELSE after_heading(ParseHeading(p, 3))

\* Actions::default
ActionsDefault == [active |-> <<>>, upcoming |-> <<>>, complete |-> <<>>]

\* Actions::parse
ActionsParse(p) == ActionsParseLoop(p, ActionsDefault)

\* a loop of Project::parse that keeps the actions it has when
\* Actions::parse fails
RECURSIVE ProjectSectionsLoopKeeping(_, _, _)
ProjectSectionsLoopKeeping(p, title, st) ==
    LET goal(until) ==
            ProjectSectionsLoopKeeping(until.parser, title, [st EXCEPT !.goal = Some(until.ret)])
        info(until) ==
            ProjectSectionsLoopKeeping(until.parser, title, [st EXCEPT !.info = Some(until.ret)])
        actions_of(acts) ==
            ProjectSectionsLoopKeeping(
                acts.parser, title,
                IF acts.ret.ok THEN [st EXCEPT !.actions = Some(acts.ret.val)] ELSE st)
        after_title(section_heading, section_title) ==
            IF section_title = None
            THEN [ret |-> Err([error |-> "HasSectionWithNonStringTitle",
                               heading |-> section_heading.ret.val]),
                  parser |-> section_heading.parser]
            ELSE CASE Unwrap(section_title) = GoalTitle ->
                         goal(ParseUntil(section_heading.parser, Start(Heading(2))))
                   [] Unwrap(section_title) = InfoTitle ->
                         info(ParseUntil(section_heading.parser, Start(Heading(2))))
                   [] Unwrap(section_title) = ActionsTitle ->
                         actions_of(ActionsParse(section_heading.parser))
                   [] Unwrap(section_title) = ActionItemsTitle ->
                         IF HeadingTryAsTitleString(title) = None
                         THEN [ret |-> Panic, parser |-> section_heading.parser]
                         ELSE actions_of(ActionsParse(section_heading.parser))
                   [] OTHER ->
                         [ret |-> Err([error |-> "HasUnexpectedSection",
                                       heading |-> section_heading.ret.val]),
                          parser |-> section_heading.parser]
        after_heading(section_heading) ==
            IF ~section_heading.ret.ok
            THEN [ret |-> Err(WrappedParseError(section_heading.ret.err)),
                  parser |-> section_heading.parser]
            ELSE after_title(section_heading, HeadingTryAsStr(section_heading.ret.val))
    IN  IF Peek(p) = None THEN [ret |-> Ok(st), parser |-> p]
        ELSE after_heading(ParseHeading(p, 2))

\* the loop of Project::parse over the level-2 sections: title is the title
\* of the document, st holds goal, info and actions, section_heading is
\* what parse_heading(2) returned, section_title what try_to_text returned,
\* until what parse_until returned and acts what Actions::parse returned
RECURSIVE ProjectSectionsLoop(_, _, _)
ProjectSectionsLoop(p, title, st) ==
    LET goal(until) ==
            ProjectSectionsLoop(until.parser, title, [st EXCEPT !.goal = Some(until.ret)])
        info(until) ==
            ProjectSectionsLoop(until.parser, title, [st EXCEPT !.info = Some(until.ret)])
        actions_of(acts) ==
            ProjectSectionsLoop(
                acts.parser, title,
                [st EXCEPT !.actions = IF acts.ret.ok THEN Some(acts.ret.val) ELSE None])
        after_title(section_heading, section_title) ==
            IF section_title = None
            THEN [ret |-> Err([error |-> "HasSectionWithNonStringTitle",
                               heading |-> section_heading.ret.val]),
                  parser |-> section_heading.parser]
            ELSE CASE Unwrap(section_title) = GoalTitle ->
                         goal(ParseUntil(section_heading.parser, Start(Heading(2))))
                   [] Unwrap(section_title) = InfoTitle ->
                         info(ParseUntil(section_heading.parser, Start(Heading(2))))
                   [] Unwrap(section_title) = ActionsTitle ->
                         actions_of(ActionsParse(section_heading.parser))
                   [] Unwrap(section_title) = ActionItemsTitle ->
                         IF HeadingTryAsTitleString(title) = None
                         THEN [ret |-> Panic, parser |-> section_heading.parser]
                         ELSE actions_of(ActionsParse(section_heading.parser))
                   [] OTHER ->
                         [ret |-> Err([error |-> "HasUnexpectedSection",
                                       heading |-> section_heading.ret.val]),
                          parser |-> section_heading.parser]
        after_heading(section_heading) ==
            IF ~section_heading.ret.ok
            THEN [ret |-> Err(WrappedParseError(section_heading.ret.err)),
                  parser |-> section_heading.parser]
            ELSE after_title(section_heading, HeadingTryAsStr(section_heading.ret.val))
    IN  IF Peek(p) = None THEN [ret |-> Ok(st), parser |-> p]
        ELSE after_heading(ParseHeading(p, 2))

\* the position of the last status tag of the tags, None without one
LastStatus(tags) ==
    IF \E i \in 1..Len(tags) : StatusTryFrom(tags[i]) # None
    THEN Some(CHOOSE i \in 1..Len(tags) :
                  /\ StatusTryFrom(tags[i]) # None
                  /\ \A j \in (i + 1)..Len(tags) : StatusTryFrom(tags[j]) = None)
    ELSE None

\* the position of the first status tag of the tags, None without one
FirstStatus(tags) ==
    IF \E i \in 1..Len(tags) : StatusTryFrom(tags[i]) # None
    THEN Some(Min({i \in 1..Len(tags) : StatusTryFrom(tags[i]) # None}))
    ELSE None

\* Vec::swap_remove: the last element takes the place of the removed one
SwapRemove(v, i) ==
    IF i = Len(v) THEN SubSeq(v, 1, Len(v) - 1)
    ELSE [SubSeq(v, 1, Len(v) - 1) EXCEPT ![i] = v[Len(v)]]

\* Vec::remove
Remove(v, i) == SubSeq(v, 1, i - 1) \o SubSeq(v, i + 1, Len(v))

\* Project::parse: what it returns, and where its parser stopped; name is
\* what Name::new returned, doc what Doc::parse returned, status_idx the
\* position of the first status of the tags
ProjectParse(filename, text) ==
    LET after_sections(name, doc, tags, status, sections) ==
            IF ~sections.ret.ok THEN sections
            ELSE [ret |-> Ok([name |-> name,
                              title |-> doc.ret.val.title,
                              tags |-> tags,
                              status |-> status,
                              goal |-> sections.ret.val.goal,
                              info |-> sections.ret.val.info,
                              actions |-> IF sections.ret.val.actions = None
                                          THEN ActionsDefault
                                          ELSE Unwrap(sections.ret.val.actions)]),
                  parser |-> sections.parser]
        after_status(name, doc, tags, status_idx) ==
            IF status_idx = None
            THEN [ret |-> Err([error |-> "MissingStatus"]), parser |-> doc.parser]
            ELSE after_sections(name, doc, Remove(tags, Unwrap(status_idx)),
                                Unwrap(StatusTryFrom(tags[Unwrap(status_idx)])),
                                ProjectSectionsLoop(doc.parser, doc.ret.val.title,
                                                    [goal |-> None, info |-> None,
                                                     actions |-> None]))
        after_doc(name, doc) ==
            IF ~doc.ret.ok
            THEN [ret |-> Err(WrappedParseError(doc.ret.err)), parser |-> doc.parser]
            ELSE after_status(name, doc, doc.ret.val.tags, FirstStatus(doc.ret.val.tags))
        after_name(name) ==
            IF name = None
            THEN [ret |-> Err([error |-> "InvalidProjectName"]), parser |-> text]
            ELSE after_doc(Unwrap(name), DocParse(text))
    IN  after_name(NameNew(filename))

-----------------------------------------------------------------------------
(* Project::parse and Context::parse over the events of a document *)

\* number of actions of the list of a context, and of sections of a project
MaxActions == 2

MaxSections == 2

\* the events of a paragraph of one text
TextParagraph(s) == <<Start(Paragraph), Text(s), End(Paragraph)>>

\* the events of a heading of one text
TextHeading(level, s) == <<Start(Heading(level)), Text(s), End(Heading(level))>>

\* what a document begins with: a title, a title of two lines, a title with
\* an emphasis, a heading of level 2, nothing
DocTitles ==
    {TextHeading(1, <<"T">>),
     <<Start(Heading(1)), Text(<<"a">>), SoftBreak, Text(<<"b">>), End(Heading(1))>>,
     <<Start(Heading(1)), Text(<<"T">>), Start(Emphasis), Text(<<"e">>), End(Emphasis),
       End(Heading(1))>>,
     TextHeading(2, <<"T">>),
     <<>>}

\* what follows the title: no paragraph, a line of tags with and without a
\* status, a paragraph of two lines, a paragraph of a code span
DocTagLines ==
    {<<>>,
     TextParagraph(<<"#">> \o IN_PROGRESS_TAG),
     TextParagraph(<<"#", "x", " ", "#">> \o COMPLETE_TAG),
     TextParagraph(<<"#", "x">>),
     <<Start(Paragraph), Text(<<"#">> \o SOMEDAY_TAG), SoftBreak, Text(<<"#", "x">>),
       End(Paragraph)>>,
     <<Start(Paragraph), Code(<<"c">>), End(Paragraph)>>}

\* the id of a reference
RefId == <<"a", "b", "c", "1", "2", "3">>

\* the events of [[link]] and of ![[link]]
Brackets(open, link) ==
    <<Text(open), Text(<<"[">>), Text(link), Text(<<"]">>), Text(<<"]">>)>>

\* the fragments of the items of a context: a text, a reference to an action
\* of a project, an embedded one, a reference whose link is no project name,
\* a link without an id
ContextItemFragments ==
    {<<Text(<<"a">>)>>,
     Brackets(<<"[">>, Id1 \o <<" ", "A", "#", "^">> \o RefId),
     Brackets(<<"!", "[">>, Id1 \o <<" ", "A", "#", "^">> \o RefId),
     Brackets(<<"[">>, <<"N", "o", " ", "P", "#", "^">> \o RefId),
     Brackets(<<"[">>, Id1 \o <<" ", "A">>)}

\* the events of an unordered list of items of the fragments
ListOf(fragments) ==
    <<Start(List(None))>>
        \o Concat([i \in 1..Len(fragments) |-> <<Start(Item)>> \o fragments[i] \o <<End(Item)>>])
        \o <<End(List(None))>>

\* the body of a context: no list, or a list of actions
ContextBodies ==
    {<<>>} \cup {ListOf(fragments) :
                    fragments \in UNION {SeqsOfLen(ContextItemFragments, n) : n \in 1..MaxActions}}

\* the sections of a project: a goal, actions, actions under a heading that
\* is no status, action items, a section of another title, a section whose
\* title is no string
ProjectSections ==
    {TextHeading(2, GoalTitle) \o TextParagraph(<<"g">>),
     TextHeading(2, ActionsTitle) \o TextHeading(3, ActiveTitle)
         \o ListOf(<<<<Text(<<"x", " ", "^", "a", "a", "a", "a", "a", "a">>)>>>>),
     TextHeading(2, ActionsTitle) \o TextHeading(3, <<"B">>),
     TextHeading(2, ActionItemsTitle) \o TextHeading(3, UpcomingTitle),
     TextHeading(2, <<"F">>),
     <<Start(Heading(2)), Text(<<"T">>), Code(<<"c">>), End(Heading(2))>>}

\* the body of a project: its sections
ProjectBodies ==
    {Concat(sections) : sections \in UNION {SeqsOfLen(ProjectSections, n) : n \in 0..MaxSections}}

\* the events of the documents
Documents ==
    {title \o tags \o body :
        title \in DocTitles, tags \in DocTagLines, body \in ContextBodies \cup ProjectBodies}

\* the names of the files: a project name, and a name that is none
DocFileNames == {Id1 \o <<" ", "A">>, <<"N", "o", " ", "P">>}

\* a file of a name and a text, not parsed yet
InitDoc ==
    /\ NoValidation
    /\ input \in [filename : DocFileNames, text : Documents]
    /\ parser = <<>>
    /\ call = [fn |-> "none"]
    /\ ret = [fn |-> "none"]

CallContextParse ==
    /\ call.fn = "none"
    /\ call' = [fn |-> "Context::parse", filename |-> input.filename, text |-> input.text]
    /\ ret' = ContextParse(input.filename, input.text).ret
    /\ parser' = ContextParse(input.filename, input.text).parser
    /\ UNCHANGED <<input, validateVars>>

CallProjectParse ==
    /\ call.fn = "none"
    /\ call' = [fn |-> "Project::parse", filename |-> input.filename, text |-> input.text]
    /\ ret' = ProjectParse(input.filename, input.text).ret
    /\ parser' = ProjectParse(input.filename, input.text).parser
    /\ UNCHANGED <<input, validateVars>>

NextDoc ==
    \/ CallContextParse
    \/ CallProjectParse

SpecDoc == InitDoc /\ [][NextDoc]_vars

-----------------------------------------------------------------------------
(* Properties of Context::parse and Project::parse *)

\* the fragments of the items of a stream without nested lists: the events
\* between each start of an item and the end of an item that follows it
ItemFragmentsOf(s) ==
    LET starts == {i \in 1..Len(s) : s[i] = Start(Item)}
        EndAfter(i) == Min({j \in i..Len(s) : s[j] = End(Item)})
        Nth(n) == CHOOSE i \in starts : Cardinality({j \in starts : j < i}) = n - 1
    IN  [n \in 1..Cardinality(starts) |-> SubSeq(s, Nth(n) + 1, EndAfter(Nth(n)) - 1)]

\* the five events of a reference in brackets whose text holds "#^"
IsBracketedRef(f) ==
    /\ Len(f) = 5
    /\ f[1] \in {Text(<<"[">>), Text(<<"!", "[">>)}
    /\ f[2] = Text(<<"[">>)
    /\ f[3].ev = "Text"
    /\ \E i \in 1..(Len(f[3].s) - 1) : f[3].s[i] = "#" /\ f[3].s[i + 1] = "^"
    /\ f[4] = Text(<<"]">>)
    /\ f[5] = Text(<<"]">>)

\* the text of a context: a title of one line, then at most a paragraph of
\* one text, then at most a list
IsContextText(text) ==
    /\ Len(text) > 0
    /\ text[1] = Start(Heading(1))
    /\ \A i \in 1..Len(text) :
           /\ text[i].ev \notin {"SoftBreak", "Code"}
           /\ text[i].ev = "Start" => text[i].tag.tag # "Heading" \/ i = 1

\* C11: Context::parse makes a Reference of every item that is a reference
\* in brackets with "#^" and a Literal of the unchanged fragment of every
\* other item, and an item never ends the parse
C11_ContextParseClassifiesItems ==
    (call.fn = "Context::parse" /\ IsContextText(call.text)) =>
        /\ ret.ok
        /\ Len(ret.val.actions) = Len(ItemFragmentsOf(call.text))
        /\ \A i \in 1..Len(ret.val.actions) :
               IF IsBracketedRef(ItemFragmentsOf(call.text)[i])
               THEN ret.val.actions[i].kind = "Reference"
               ELSE ret.val.actions[i] = [kind |-> "Literal",
                                          fragment |-> ItemFragmentsOf(call.text)[i]]

\* the title of the text fails to parse, and the error of it
TitleFails(text) == ~ParseHeading(text, 1).ret.ok

TitleError(text) == ParseHeading(text, 1).ret.err

\* the title parses and the line of tags after it fails to parse, and the
\* error of it
TagLineFails(text) ==
    /\ ParseHeading(text, 1).ret.ok
    /\ ~ParseTags(ParseHeading(text, 1).parser).ret.ok

TagLineError(text) == ParseTags(ParseHeading(text, 1).parser).ret.err

\* a Project::parse of a file whose name is a project name, or a
\* Context::parse
ParsedDoc ==
    \/ call.fn = "Context::parse"
    \/ call.fn = "Project::parse" /\ NameNew(call.filename) # None

\* C16: when the title or the line of tags fails to parse, Project::parse
\* and Context::parse return that error and no entity
C16_TitleAndTagLineErrorsPropagate ==
    ParsedDoc =>
        /\ TitleFails(call.text) => ret = Err(WrappedParseError(TitleError(call.text)))
        /\ TagLineFails(call.text) => ret = Err(WrappedParseError(TagLineError(call.text)))

\* C16 as the code has it: the error of the title is returned and no entity;
\* the error of the line of tags is dropped, Context::parse returns no error
\* and Project::parse, left without a status, returns MissingStatus
C16_TitleErrorPropagates ==
    ParsedDoc =>
        /\ TitleFails(call.text) => ret = Err(WrappedParseError(TitleError(call.text)))
        /\ TagLineFails(call.text) =>
               /\ call.fn = "Context::parse" => ~IsErr(ret)
               /\ call.fn = "Context::parse" /\ ret.ok =>
                      ret.val.title = ParseHeading(call.text, 1).ret.val
               /\ call.fn = "Project::parse" => ret = Err([error |-> "MissingStatus"])

\* a Context::parse that returned a context of a text whose paragraph of
\* tags has two lines
C16_Witness ==
    /\ call.fn = "Context::parse"
    /\ TagLineFails(call.text)
    /\ SoftBreak \in Range(call.text)
    /\ ret.ok

-----------------------------------------------------------------------------
(* project::Name over the names of files *)

\* number of words of the title of a name
MaxWords == 2

\* n digits
DigitRun(n) == [i \in 1..n |-> "1"]

\* what stands before the title: nothing, or ID_LEN digits, one less or one
\* more, with at most one of them replaced by another digit, a letter, a
\* character of two bytes or a space
NamePrefixes ==
    {<<>>} \cup UNION {{DigitRun(n)} \cup {[DigitRun(n) EXCEPT ![i] = c] :
                                             i \in 1..n, c \in {"9", "x", TwoByteChar, " "}} :
                       n \in (ID_LEN - 1)..(ID_LEN + 1)}

\* n words with a space between them
RECURSIVE Words(_)
Words(n) == IF n = 0 THEN <<>> ELSE IF n = 1 THEN <<"A">> ELSE <<"A", " ">> \o Words(n - 1)

\* what follows: nothing, or a space and a title, or two spaces and a title
NameRests ==
    {<<>>} \cup {sp \o Words(n) : sp \in {<<" ">>, <<" ", " ">>}, n \in 0..MaxWords}

\* the names of the files
FileNames == {prefix \o rest : prefix \in NamePrefixes, rest \in NameRests}

\* the texts of the files: a project of a title and a status, and no text
NameTexts == {TextHeading(1, <<"T">>) \o TextParagraph(<<"#">> \o SOMEDAY_TAG), <<>>}

InitName ==
    /\ NoValidation
    /\ input \in [filename : FileNames, text : NameTexts]
    /\ parser = <<>>
    /\ call = [fn |-> "none"]
    /\ ret = [fn |-> "none"]

\* Name::new of the name of the file, and id() and title() of the name
CallNameNew ==
    /\ call.fn = "none"
    /\ call' = [fn |-> "Name::new", name |-> input.filename]
    /\ ret' = LET n == NameNew(input.filename)
              IN  [name |-> n,
                   id |-> IF n = None THEN None ELSE Some(NameId(Unwrap(n))),
                   title |-> IF n = None THEN None ELSE Some(NameTitle(Unwrap(n)))]
    /\ UNCHANGED <<input, parser, validateVars>>

NextName ==
    \/ CallNameNew
    \/ CallProjectParse

SpecName == InitName /\ [][NextName]_vars

-----------------------------------------------------------------------------
(* Properties of project::Name *)

\* the name is ID_LEN digits, a space, and then any title
IsProjectFileName(f) ==
    /\ Len(f) > ID_LEN
    /\ f[ID_LEN + 1] = " "
    /\ \A j \in 1..ID_LEN : f[j] \in Digits

\* C19: Name::new succeeds exactly for the names whose first space follows
\* 12 digits, id() is the 12 digits and title() all that follows the first
\* space; for every other name Project::parse returns InvalidProjectName
C19_NameSplitsAtFirstSpace ==
    /\ call.fn = "Name::new" =>
           /\ ret.name # None <=> IsProjectFileName(call.name)
           /\ IsProjectFileName(call.name) =>
                  /\ ret.id = Some(SubSeq(call.name, 1, ID_LEN))
                  /\ ret.title = Some(SubSeq(call.name, ID_LEN + 2, Len(call.name)))
    /\ call.fn = "Project::parse" =>
           (ret = Err([error |-> "InvalidProjectName"]) <=> ~IsProjectFileName(call.filename))

\* a Name::new that made a name whose title is two words
C19_Witness ==
    /\ call.fn = "Name::new"
    /\ ret.name # None
    /\ ret.title = Some(Words(2))

\* the spaces of a name, and what stands before the first of them
SpacesOf(f) == {i \in 1..Len(f) : f[i] = " "}

PrefixOf(f) == SubSeq(f, 1, Min(SpacesOf(f) \cup {Len(f) + 1}) - 1)

GoodPrefix(f) == Len(PrefixOf(f)) = ID_LEN /\ \A j \in 1..ID_LEN : PrefixOf(f)[j] \in Digits

\* C20: Name::new fails for every name that has not exactly one space, and
\* for every name whose prefix is not 12 digits
C20_FailsUnlessExactlyOneSpace ==
    call.fn = "Name::new" =>
        (Cardinality(SpacesOf(call.name)) # 1 \/ ~GoodPrefix(call.name) => ret.name = None)

\* C20 as the code has it: Name::new fails for every name without a space
\* and for every name whose prefix before the first space is not 12 digits;
\* a name of 12 digits and a space is taken however many spaces follow
C20_FailsWithoutSpaceOrPrefix ==
    call.fn = "Name::new" =>
        /\ SpacesOf(call.name) = {} \/ ~GoodPrefix(call.name) => ret.name = None
        /\ SpacesOf(call.name) # {} /\ GoodPrefix(call.name) => ret.name # None

\* a Name::new that made a name of a file name of more than one space
C20_Witness ==
    /\ call.fn = "Name::new"
    /\ Cardinality(SpacesOf(call.name)) > 1
    /\ ret.name # None

-----------------------------------------------------------------------------
(* Properties of the rules *)

\* an action of the actions has the id
HasId(acts, id) == \E i \in 1..Len(acts) : acts[i].id = Some(id)

\* the context action is a reference to an action of a project of the
\* corpus that is filed under upcoming or complete and not under active
RefersToInactive(action) ==
    /\ action.kind = "Reference"
    /\ action.ref.project_name \in DOMAIN docs.projects
    /\ LET acts == docs.projects[action.ref.project_name].actions
       IN  /\ HasId(acts.upcoming, action.ref.action_id)
               \/ HasId(acts.complete, action.ref.action_id)
           /\ ~HasId(acts.active, action.ref.action_id)

\* C23: action_in_project_is_active fails for a context action exactly when
\* it is a reference to a project of the corpus that has an action of the
\* referenced id and that action is not active; it passes for literals, for
\* references to no project and to projects without the id
C23_FailsIffReferencedActionNotActive ==
    pc = "done" =>
        \A e \in ContextActionEntities :
            "action is not active in linked project" \in BulletTexts(e)
                <=> RefersToInactive(ActionOf(e))

\* a finished run with a reference to an upcoming action, which failed
C23_Witness ==
    /\ pc = "done"
    /\ \E e \in ContextActionEntities :
           /\ "action is not active in linked project" \in BulletTexts(e)
           /\ HasId(docs.projects[ActionOf(e).ref.project_name].actions.upcoming,
                    ActionOf(e).ref.action_id)

\* C24: complete_project_has_only_complete_actions fails for a project
\* exactly when it is Complete and has an active or an upcoming action
C24_FailsIffCompleteWithUncompleteAction ==
    pc = "done" =>
        \A n \in DOMAIN docs.projects :
            "is complete but has at least one uncomplete action" \in BulletTexts([p |-> n])
                <=> /\ docs.projects[n].status = "Complete"
                    /\ \/ docs.projects[n].actions.active # <<>>
                       \/ docs.projects[n].actions.upcoming # <<>>

\* a finished run with a complete project that failed for an upcoming
\* action alone, and a complete project without actions that passed
C24_Witness ==
    /\ pc = "done"
    /\ \E n \in DOMAIN docs.projects :
           /\ "is complete but has at least one uncomplete action" \in BulletTexts([p |-> n])
           /\ docs.projects[n].actions.active = <<>>
    /\ \E n \in DOMAIN docs.projects :
           /\ docs.projects[n].status = "Complete"
           /\ docs.projects[n].actions = [active |-> <<>>, upcoming |-> <<>>, complete |-> <<>>]
           /\ "is complete but has at least one uncomplete action" \notin BulletTexts([p |-> n])

\* C25: in_progress_project_has_active_actions fails for a project exactly
\* when it is InProgress and has no active action
C25_FailsIffInProgressWithoutActive ==
    pc = "done" =>
        \A n \in DOMAIN docs.projects :
            "is in progress but has no active actions" \in BulletTexts([p |-> n])
                <=> /\ docs.projects[n].status = "InProgress"
                    /\ docs.projects[n].actions.active = <<>>

\* a finished run with a project in progress that failed though it has an
\* upcoming action, and a project of another status without actions that
\* passed
C25_Witness ==
    /\ pc = "done"
    /\ \E n \in DOMAIN docs.projects :
           /\ "is in progress but has no active actions" \in BulletTexts([p |-> n])
           /\ docs.projects[n].actions.upcoming # <<>>
    /\ \E n \in DOMAIN docs.projects :
           /\ docs.projects[n].status # "InProgress"
           /\ docs.projects[n].actions.active = <<>>
           /\ "is in progress but has no active actions" \notin BulletTexts([p |-> n])

-----------------------------------------------------------------------------
(* BlockRef::from_fragment over fragments *)

\* the texts of the third event: with one "#^", with two, with none, with
\* the two characters apart or swapped, with nothing before or after "#^"
LinkIdTexts ==
    {<<"L", "#", "^", "i">>, <<"a", "#", "^", "b", "#", "^", "c">>, <<"L">>,
     <<"L", "#", "i">>, <<"L", "^", "#", "i">>, <<"L", "#", " ", "^", "i">>,
     <<"#", "^", "i">>, <<"L", "#", "^">>, <<"#", "^">>}

\* the fragments: five events of which each may be another than the
\* pattern asks for, and the same with the last event missing or repeated
BlockRefFragments ==
    LET five == {<<e1, e2, e3, e4, e5>> :
                    e1 \in {Text(<<"[">>), Text(<<"!", "[">>), Text(<<"!">>), Code(<<"[">>)},
                    e2 \in {Text(<<"[">>), Text(<<"!", "[">>)},
                    e3 \in {Text(t) : t \in LinkIdTexts} \cup {Code(<<"L", "#", "^", "i">>)},
                    e4 \in {Text(<<"]">>), Text(<<"x">>)},
                    e5 \in {Text(<<"]">>), SoftBreak}}
    IN  five \cup {SubSeq(f, 1, 4) : f \in five} \cup {Append(f, Text(<<"]">>)) : f \in five}
             \cup {<<>>}

InitBlockRef ==
    /\ NoValidation
    /\ input \in BlockRefFragments
    /\ parser = <<>>
    /\ call = [fn |-> "none"]
    /\ ret = [fn |-> "none"]

CallBlockRefFromFragment ==
    /\ call.fn = "none"
    /\ call' = [fn |-> "BlockRef::from_fragment", frag |-> input]
    /\ ret' = BlockRefFromFragment(input)
    /\ UNCHANGED <<input, parser, validateVars>>

NextBlockRef == CallBlockRefFromFragment

SpecBlockRef == InitBlockRef /\ [][NextBlockRef]_vars

\* C22: BlockRef::from_fragment returns a BlockRef exactly for the five
\* text events "[" or "![", "[", T, "]", "]" with "#^" in T; its link is T
\* before the first "#^", its id is T after it, and it is embedded exactly
\* when the first event is "!["; for every other fragment it returns None
C22_BlockRefOfBracketedRef ==
    call.fn = "BlockRef::from_fragment" =>
        IF IsBracketedRef(call.frag)
        THEN \E i \in 1..(Len(call.frag[3].s) - 1) :
                /\ call.frag[3].s[i] = "#" /\ call.frag[3].s[i + 1] = "^"
                /\ \A j \in 1..(i - 1) : ~(call.frag[3].s[j] = "#" /\ call.frag[3].s[j + 1] = "^")
                /\ ret = Some([link |-> SubSeq(call.frag[3].s, 1, i - 1),
                               id |-> SubSeq(call.frag[3].s, i + 2, Len(call.frag[3].s)),
                               is_embedded |-> call.frag[1] = Text(<<"!", "[">>)])
        ELSE ret = None

\* a BlockRef of an embedded reference whose text has "#^" twice
C22_Witness ==
    /\ call.fn = "BlockRef::from_fragment"
    /\ ret # None
    /\ Unwrap(ret).is_embedded
    /\ Unwrap(ret).link = <<"a">>
    /\ Unwrap(ret).id = <<"b", "#", "^", "c">>

-----------------------------------------------------------------------------
(* Parser::parse_tags over the events of a text *)

\* number of characters of the text of a paragraph
MaxTagChars == 6

\* the strings of up to n of the characters
RECURSIVE StringsUpTo(_, _)
StringsUpTo(chars, n) ==
    IF n = 0 THEN {<<>>}
    ELSE {<<>>} \cup {<<c>> \o t : c \in chars, t \in StringsUpTo(chars, n - 1)}

\* the line is an ATX heading: one to six "#" and then a space or the end
IsAtxHeading(t) ==
    \E n \in 1..6 :
        /\ n <= Len(t)
        /\ \A i \in 1..n : t[i] = "#"
        /\ n = Len(t) \/ t[n + 1] = " "

\* the texts of a paragraph of one line: no space at either end, and no
\* heading
ParagraphTexts ==
    {t \in StringsUpTo({"#", " ", "a"}, MaxTagChars) :
        t # <<>> /\ t[1] # " " /\ t[Len(t)] # " " /\ ~IsAtxHeading(t)}

\* the events a text begins with: a paragraph of one text, of two lines, of
\* a code span, of a text and a code span, a heading, nothing
TagStreams ==
    {<<Start(Paragraph), Text(t), End(Paragraph)>> : t \in ParagraphTexts}
    \cup {<<Start(Paragraph), Text(<<"#", "a">>), SoftBreak, Text(<<"#", "b">>), End(Paragraph)>>,
          <<Start(Paragraph), Code(<<"#", "a">>), End(Paragraph)>>,
          <<Start(Paragraph), Text(<<"#", "a", " ">>), Code(<<"b">>), End(Paragraph)>>,
          <<Start(Heading(2)), Text(<<"#", "a">>), End(Heading(2))>>,
          <<>>}

\* Parser::new over a text of a paragraph, alone or followed by a rule
InitTags ==
    /\ NoValidation
    /\ input \in {s \o t : s \in TagStreams, t \in {<<>>, <<Rule>>}}
    /\ parser = input
    /\ call = [fn |-> "none"]
    /\ ret = [fn |-> "none"]

CallParseTags ==
    /\ call.fn = "none"
    /\ call' = [fn |-> "parse_tags", before |-> parser]
    /\ ret' = ParseTags(parser).ret
    /\ parser' = ParseTags(parser).parser
    /\ UNCHANGED <<input, validateVars>>

NextTags == CallParseTags

SpecTags == InitTags /\ [][NextTags]_vars

\* the n-th of the positions 0, those of the spaces of t, and Len(t) + 1
Boundary(t, n) ==
    LET at == {0, Len(t) + 1} \cup {i \in 1..Len(t) : t[i] = " "}
    IN  CHOOSE i \in at : Cardinality({j \in at : j < i}) = n - 1

\* the tokens of t between its spaces, in order
Tokens(t) ==
    [n \in 1..(Cardinality({i \in 1..Len(t) : t[i] = " "}) + 1) |->
        SubSeq(t, Boundary(t, n) + 1, Boundary(t, n + 1) - 1)]

\* the tokens of t that begin with "#", without that "#", in order
HashTokens(t) ==
    LET BeginsWithHash(tok) == tok # <<>> /\ tok[1] = "#"
        kept == SelectSeq(Tokens(t), BeginsWithHash)
    IN  [n \in 1..Len(kept) |-> Tail(kept[n])]

\* the events begin with a paragraph of a single text
SingleTextParagraph(b) ==
    /\ Len(b) >= 3
    /\ b[1] = Start(Paragraph)
    /\ b[2].ev = "Text"
    /\ b[3] = End(Paragraph)

\* C26: parse_tags succeeds exactly when the next events are the start of a
\* paragraph, one text and the end of the paragraph; it then returns, in
\* order, the tokens between the spaces of the text that begin with "#",
\* without that one "#", and the paragraph is consumed
C26_ParseTagsOfSingleText ==
    call.fn = "parse_tags" =>
        /\ ret.ok <=> SingleTextParagraph(call.before)
        /\ SingleTextParagraph(call.before) =>
               /\ ret.val = HashTokens(call.before[2].s)
               /\ parser = SubSeq(call.before, 4, Len(call.before))

\* a parse_tags that returned two tags of a text of more than two tokens,
\* one of the tags with a "#" of its own
C26_Witness ==
    /\ call.fn = "parse_tags"
    /\ ret.ok
    /\ Len(ret.val) = 2
    /\ Len(Tokens(call.before[2].s)) > 2
    /\ \E n \in 1..2 : ret.val[n] # <<>> /\ ret.val[n][1] = "#"

-----------------------------------------------------------------------------
(* Project::parse over the tags and the sections of a project *)

\* number of tags of the line of tags, and of sections of the body
MaxTags == 3

MaxProjectSections == 3

\* the tags of a project: two that are no status, and the three statuses
ProjectTags == {<<"x">>, <<"y">>, SOMEDAY_TAG, IN_PROGRESS_TAG, COMPLETE_TAG}

\* the text of a line of the tags, each after a "#", a space between two
RECURSIVE TagLineText(_)
TagLineText(tags) ==
    IF Len(tags) = 1 THEN <<"#">> \o tags[1]
    ELSE <<"#">> \o tags[1] \o <<" ">> \o TagLineText(Tail(tags))

\* the lines of tags: no paragraph, or a paragraph of up to MaxTags tags
ProjectTagLines ==
    {<<>>} \cup {TextParagraph(TagLineText(tags)) :
                    tags \in UNION {SeqsOfLen(ProjectTags, n) : n \in 1..MaxTags}}

\* the level-3 sections of actions: active and upcoming ones with and
\* without an id, one of another title, one whose title is no string
ActiveSubsection ==
    TextHeading(3, ActiveTitle)
        \o ListOf(<<<<Text(<<"a", " ", "^", "a", "a", "a", "a", "a", "a">>)>>>>)

UpcomingSubsection ==
    TextHeading(3, UpcomingTitle)
        \o ListOf(<<<<Text(<<"b", " ", "^", "b", "b", "b", "b", "b", "b">>)>>, <<Text(<<"c">>)>>>>)

OtherSubsection == TextHeading(3, <<"B">>)

CodeSubsection == <<Start(Heading(3)), Text(<<"B">>), Code(<<"c">>), End(Heading(3))>>

\* the level-2 sections of a project: a goal, an info, actions, actions
\* without a level-3 section, actions closed by a level-3 section that is
\* none of the three or whose title is no string, alone and after actions,
\* under either title, and one followed by a list
ProjectSectionPool ==
    {TextHeading(2, GoalTitle) \o TextParagraph(<<"g">>),
     TextHeading(2, InfoTitle) \o TextParagraph(<<"i">>) \o TextParagraph(<<"j">>),
     TextHeading(2, ActionsTitle) \o ActiveSubsection \o UpcomingSubsection,
     TextHeading(2, ActionsTitle),
     TextHeading(2, ActionsTitle) \o ActiveSubsection \o OtherSubsection,
     TextHeading(2, ActionsTitle) \o OtherSubsection,
     TextHeading(2, ActionsTitle) \o CodeSubsection,
     TextHeading(2, ActionItemsTitle) \o UpcomingSubsection \o OtherSubsection,
     TextHeading(2, ActionsTitle) \o OtherSubsection \o ListOf(<<<<Text(<<"a">>)>>>>)}

\* the bodies of a project: up to MaxProjectSections sections
ProjectBodyPool ==
    {Concat(sections) :
        sections \in UNION {SeqsOfLen(ProjectSectionPool, n) : n \in 0..MaxProjectSections}}

\* the events of the projects: every line of tags before a goal, and every
\* body after a line of a tag and a status
ProjectDocuments ==
    {TextHeading(1, <<"T">>) \o tags \o TextHeading(2, GoalTitle) \o TextParagraph(<<"g">>) :
        tags \in ProjectTagLines}
    \cup {TextHeading(1, <<"T">>) \o TextParagraph(TagLineText(<<<<"x">>, SOMEDAY_TAG>>)) \o body :
             body \in ProjectBodyPool}

\* a file of a project name and a text, not parsed yet
InitProject ==
    /\ NoValidation
    /\ input \in [filename : {Id1 \o <<" ", "A">>}, text : ProjectDocuments]
    /\ parser = <<>>
    /\ call = [fn |-> "none"]
    /\ ret = [fn |-> "none"]

NextProject == CallProjectParse

SpecProject == InitProject /\ [][NextProject]_vars

-----------------------------------------------------------------------------
(* Properties of Project::parse over tags and sections *)

\* the tags of the line after the title of one text, in order
TagsOfLine(text) ==
    IF Len(text) >= 6 /\ text[4] = Start(Paragraph) /\ text[5].ev = "Text"
    THEN HashTokens(text[5].s)
    ELSE <<>>

\* the positions of the status tags of the tags
StatusPositions(tags) ==
    {i \in 1..Len(tags) : tags[i] \in {SOMEDAY_TAG, IN_PROGRESS_TAG, COMPLETE_TAG}}

\* the status a status tag names
StatusOfTag(t) ==
    CASE t = SOMEDAY_TAG -> "Someday"
      [] t = IN_PROGRESS_TAG -> "InProgress"
      [] t = COMPLETE_TAG -> "Complete"

\* the tags without the one at position i, the others in their order
Without(tags, i) == [n \in 1..(Len(tags) - 1) |-> IF n < i THEN tags[n] ELSE tags[n + 1]]

\* the events of the text from its first heading of level 2
BodyOf(text) ==
    IF \E i \in 1..Len(text) : text[i] = Start(Heading(2))
    THEN SubSeq(text, Min({i \in 1..Len(text) : text[i] = Start(Heading(2))}), Len(text))
    ELSE <<>>

\* the body of the text is a goal and nothing else
GoalOnly(text) == BodyOf(text) = TextHeading(2, GoalTitle) \o TextParagraph(<<"g">>)

\* the result is the error MissingStatus
IsMissingStatus(r) == r = Err([error |-> "MissingStatus"])

\* C21: a project whose line of tags holds exactly one status tag among N
\* others parses to the status of that tag and to the N other tags in their
\* order, wherever the status tag stands; a line without a status tag gives
\* MissingStatus
C21_StatusTagRemovedAtAnyPosition ==
    call.fn = "Project::parse" =>
        /\ StatusPositions(TagsOfLine(call.text)) = {} => IsMissingStatus(ret)
        /\ \A i \in 1..Len(TagsOfLine(call.text)) :
               StatusPositions(TagsOfLine(call.text)) = {i} =>
                   /\ ~IsMissingStatus(ret)
                   /\ GoalOnly(call.text) => ret.ok
                   /\ ret.ok =>
                          /\ ret.val.status = StatusOfTag(TagsOfLine(call.text)[i])
                          /\ ret.val.tags = Without(TagsOfLine(call.text), i)
                          /\ Len(ret.val.tags) = Len(TagsOfLine(call.text)) - 1
                          /\ StatusPositions(ret.val.tags) = {}

\* a project parsed from the tags y, in-progress and x, in this order
C21_Witness ==
    /\ call.fn = "Project::parse"
    /\ TagsOfLine(call.text) = <<<<"y">>, IN_PROGRESS_TAG, <<"x">>>>
    /\ ret.ok
    /\ ret.val.status = "InProgress"
    /\ ret.val.tags = <<<<"y">>, <<"x">>>>

\* C28: a project whose line of tags holds more than one status tag parses
\* to the status of the first of them; only that one is removed and every
\* later status tag stays in the tags, and the parse does not fail
C28_FirstStatusTagWins ==
    (call.fn = "Project::parse" /\ Cardinality(StatusPositions(TagsOfLine(call.text))) > 1) =>
        /\ ~IsMissingStatus(ret)
        /\ GoalOnly(call.text) => ret.ok
        /\ ret.ok =>
               /\ ret.val.status =
                      StatusOfTag(TagsOfLine(call.text)[Min(StatusPositions(TagsOfLine(call.text)))])
               /\ ret.val.tags =
                      Without(TagsOfLine(call.text), Min(StatusPositions(TagsOfLine(call.text))))
               /\ \A i \in StatusPositions(TagsOfLine(call.text)) :
                      i # Min(StatusPositions(TagsOfLine(call.text))) =>
                          ret.val.tags[i - 1] = TagsOfLine(call.text)[i]

\* a project parsed from the tags complete, x and someday, in this order
C28_Witness ==
    /\ call.fn = "Project::parse"
    /\ TagsOfLine(call.text) = <<COMPLETE_TAG, <<"x">>, SOMEDAY_TAG>>
    /\ ret.ok
    /\ ret.val.status = "Complete"
    /\ ret.val.tags = <<<<"x">>, SOMEDAY_TAG>>

\* the sections of a level of the events: the events of each heading of the
\* level, and those after it up to the next heading of the level
Segments(s, level) ==
    LET starts == {i \in 1..Len(s) : s[i] = Start(Heading(level))}
        Nth(n) == CHOOSE i \in starts : Cardinality({j \in starts : j < i}) = n - 1
        EndOf(i) == Min({j \in i..Len(s) : s[j] = End(Heading(level))})
        NextStart(i) == Min({j \in starts \cup {Len(s) + 1} : j > i})
    IN  [n \in 1..Cardinality(starts) |->
            [heading |-> SubSeq(s, Nth(n) + 1, EndOf(Nth(n)) - 1),
             body |-> SubSeq(s, EndOf(Nth(n)) + 1, NextStart(Nth(n)) - 1)]]

\* the heading is one text, one of the titles
Titled(seg, titles) ==
    /\ Len(seg.heading) = 1
    /\ seg.heading[1].ev = "Text"
    /\ seg.heading[1].s \in titles

\* the events are a list of items of texts
IsFlatList(b) ==
    /\ Len(b) >= 2
    /\ b[1] = Start(List(None))
    /\ b[Len(b)] = End(List(None))
    /\ \A i \in 2..(Len(b) - 1) : b[i] \in {Start(Item), End(Item)} \/ b[i].ev = "Text"

\* a level-3 section of one of the three titles with at most a list
GoodSubsection(seg) ==
    /\ Titled(seg, {ActiveTitle, UpcomingTitle, CompleteTitle})
    /\ seg.body = <<>> \/ IsFlatList(seg.body)

\* the body of a section of actions: level-3 sections, all of them good
GoodActionsBody(b) ==
    /\ b = <<>> \/ b[1] = Start(Heading(3))
    /\ \A n \in 1..Len(Segments(b, 3)) : GoodSubsection(Segments(b, 3)[n])

\* the body of a section of actions that ends in a heading of level 3 that
\* is none of the three titles, after good level-3 sections
FailingActionsBody(b) ==
    /\ b # <<>>
    /\ b[1] = Start(Heading(3))
    /\ \A n \in 1..(Len(Segments(b, 3)) - 1) : GoodSubsection(Segments(b, 3)[n])
    /\ ~Titled(Segments(b, 3)[Len(Segments(b, 3))], {ActiveTitle, UpcomingTitle, CompleteTitle})
    /\ Segments(b, 3)[Len(Segments(b, 3))].body = <<>>

\* the actions of the items under the last level-3 section of the title
ItemsUnder(b, title) ==
    LET segs == Segments(b, 3)
        at == {n \in 1..Len(segs) : Titled(segs[n], {title})}
        last == CHOOSE n \in at : \A m \in at : m <= n
    IN  IF at = {} THEN <<>>
        ELSE [i \in 1..Len(ItemFragmentsOf(segs[last].body)) |->
                 ProjectActionFromFragment(ItemFragmentsOf(segs[last].body)[i])]

\* the actions of a good body of a section of actions
ActionsOfBody(b) ==
    [active |-> ItemsUnder(b, ActiveTitle),
     upcoming |-> ItemsUnder(b, UpcomingTitle),
     complete |-> ItemsUnder(b, CompleteTitle)]

\* the bodies of the level-2 sections of the title
BodiesTitled(text, title) ==
    {Segments(text, 2)[n].body : n \in {m \in 1..Len(Segments(text, 2)) :
                                           Titled(Segments(text, 2)[m], {title})}}

\* a text of a title of one text, a status, and sections Goal, Info and
\* Actions, each at most once, in any order, the actions good
IsPermutedProject(text) ==
    /\ text[2].ev = "Text" /\ text[3] = End(Heading(1))
    /\ StatusPositions(TagsOfLine(text)) # {}
    /\ \A n \in 1..Len(Segments(text, 2)) :
           /\ Titled(Segments(text, 2)[n], {GoalTitle, InfoTitle, ActionsTitle})
           /\ \A m \in 1..Len(Segments(text, 2)) :
                  m # n => Segments(text, 2)[m].heading # Segments(text, 2)[n].heading
    /\ \A b \in BodiesTitled(text, ActionsTitle) : GoodActionsBody(b)

\* C27: a project whose sections Goal, Info and Actions appear at most once
\* and are well formed parses in every order of the sections, and to the
\* goal, the info and the actions of those sections whatever the order
C27_SectionOrderIndependent ==
    (call.fn = "Project::parse" /\ IsPermutedProject(call.text)) =>
        /\ ret.ok
        /\ ret.val.goal = (IF BodiesTitled(call.text, GoalTitle) = {} THEN None
                           ELSE Some(CHOOSE b \in BodiesTitled(call.text, GoalTitle) : TRUE))
        /\ ret.val.info = (IF BodiesTitled(call.text, InfoTitle) = {} THEN None
                           ELSE Some(CHOOSE b \in BodiesTitled(call.text, InfoTitle) : TRUE))
        /\ ret.val.actions =
               (IF BodiesTitled(call.text, ActionsTitle) = {} THEN ActionsDefault
                ELSE ActionsOfBody(CHOOSE b \in BodiesTitled(call.text, ActionsTitle) : TRUE))

\* a project parsed from actions, then an info, then a goal
C27_Witness ==
    /\ call.fn = "Project::parse"
    /\ IsPermutedProject(call.text)
    /\ Len(Segments(call.text, 2)) = 3
    /\ Titled(Segments(call.text, 2)[1], {ActionsTitle})
    /\ Titled(Segments(call.text, 2)[2], {InfoTitle})
    /\ Titled(Segments(call.text, 2)[3], {GoalTitle})
    /\ ret.ok
    /\ ret.val.goal = Some(TextParagraph(<<"g">>))
    /\ Len(ret.val.actions.active) = 1
    /\ Len(ret.val.actions.upcoming) = 2

\* the sections of actions of the text, under either title
ActionSections(text) ==
    {n \in 1..Len(Segments(text, 2)) :
        Titled(Segments(text, 2)[n], {ActionsTitle, ActionItemsTitle})}

\* a text of a title of one text, a status, and sections that are a goal, an
\* info, or actions whose body is good or fails at its end, one at least
\* failing
HasFailingActions(text) ==
    /\ text[2].ev = "Text" /\ text[3] = End(Heading(1))
    /\ StatusPositions(TagsOfLine(text)) # {}
    /\ \A n \in 1..Len(Segments(text, 2)) :
           \/ Titled(Segments(text, 2)[n], {GoalTitle, InfoTitle})
           \/ /\ n \in ActionSections(text)
              /\ \/ GoodActionsBody(Segments(text, 2)[n].body)
                 \/ FailingActionsBody(Segments(text, 2)[n].body)
    /\ \E n \in ActionSections(text) : FailingActionsBody(Segments(text, 2)[n].body)

\* the last of the sections of actions of the text
LastActionSection(text) ==
    Segments(text, 2)[CHOOSE n \in ActionSections(text) : \A m \in ActionSections(text) : m <= n]

\* C29: the error of the body of a section of actions is not returned by
\* Project::parse: the parse goes on and returns a project, whose actions
\* are empty when the failing section is the last section of actions,
\* whatever was captured before the error, and those of the last section
\* of actions otherwise
C29_ActionsErrorDiscarded ==
    (call.fn = "Project::parse" /\ HasFailingActions(call.text)) =>
        /\ ret.ok
        /\ ret.val.actions =
               (IF FailingActionsBody(LastActionSection(call.text).body) THEN ActionsDefault
                ELSE ActionsOfBody(LastActionSection(call.text).body))

\* a project parsed from good actions and then actions that hold an active
\* action and fail at the end of the events: its actions are empty
C29_Witness ==
    /\ call.fn = "Project::parse"
    /\ HasFailingActions(call.text)
    /\ Len(Segments(call.text, 2)) = 2
    /\ GoodActionsBody(Segments(call.text, 2)[1].body)
    /\ Segments(call.text, 2)[1].body # <<>>
    /\ FailingActionsBody(Segments(call.text, 2)[2].body)
    /\ Len(Segments(Segments(call.text, 2)[2].body, 3)) = 2
    /\ call.text[Len(call.text)] = End(Heading(3))
    /\ ret.ok
    /\ ret.val.actions = ActionsDefault

-----------------------------------------------------------------------------
(* Termination of Project::parse and Context::parse *)

\* C30: on every text Project::parse and Context::parse come to an end with
\* Ok or with Err, the cursor of the parser at or after where it began
C30_ParseEndsWithOkOrErr ==
    call.fn \in {"Project::parse", "Context::parse"} =>
        /\ ret.ok \/ IsErr(ret)
        /\ \E n \in 0..Len(call.text) : parser = SubSeq(call.text, n + 1, Len(call.text))

====
